---------------------------- MODULE Spec2Model ----------------------------
(***************************************************************************)
(* Model of the tool-calling orchestration layer of Roku-AI:               *)
(*   core/tools.py                 parse_tool_call, parse_date_reference,  *)
(*                                 ToolRegistry                            *)
(*   core/tool_executor.py         ToolExecutor and its handlers           *)
(*   core/personalized_roku_agent  PersonalizedRokuAgent.ask               *)
(*   core/integrations/*           the providers, at their interface       *)
(*                                                                         *)
(* Model output text is a sequence of lexemes (tokens).  Each token stands *)
(* for a fixed piece of text: a brace, a bracket, a comma, one blank, a    *)
(* key with its colon ("name":), a string literal, a number, or a run of   *)
(* prose that holds no brace and no quote.                                 *)
(***************************************************************************)
EXTENDS Integers, Sequences, FiniteSets, TLC

VARIABLES
    p_pc,          \* parser harness: "ready" | "done" ("off" in the other specifications)
    p_text,        \* parser harness: the text handed to parse_tool_call
    p_result,      \* parser harness: what parse_tool_call produced
    config,        \* the providers the executor was built with
    clock,         \* datetime.now(), as an index into Instants
    ics_cache,     \* ICSProvider._cache
    e_pc,          \* executor harness: "ready" | "done" ("off" elsewhere)
    e_call,        \* executor harness: the ToolCall handed to execute
    e_env,         \* executor harness: what the providers answered to the last execute
    e_out,         \* executor harness: how the last execute ended
    e_count,       \* executor harness: executes so far
    a_pc,          \* ask(): "idle" | "loop" | "model" | "returned" | "raised" ("off" elsewhere)
    iteration,     \* ask(): the loop variable
    tool_results,  \* ask(): the evidence, a list of (tool_call, result)
    prompt,        \* ask(): the evidence part of the last prompt built
    response,      \* ask(): the last model output
    answer,        \* ask(): the returned text
    executed,      \* ask(): invocations of executor.execute in this ask()
    provider_calls,\* ask(): provider invocations in this ask()
    asks,          \* ask() invocations started so far
    t_pc,          \* time harness: "ready" | "labelled" | "checked" ("off" elsewhere)
    t_now,         \* time harness: the instant datetime.now() returns
    t_out,         \* time harness: the result of get_current_time
    t_window,      \* time harness: the result of check_availability for a time_of_day
    registry,      \* ToolRegistry.tools, in insertion order
    r_last,        \* registry harness: the last register call and how it ended
    r_count,       \* registry harness: register calls so far
    d_pc,          \* date harness: "ready" | "done" ("off" elsewhere)
    d_value,       \* date harness: the date_str handed to parse_date_reference
    d_ref,         \* date harness: the reference instant
    d_out,         \* date harness: what parse_date_reference returned
    c_inv,         \* concurrent ask() invocations: the local state of each
    q_pc,          \* router harness: "on" ("off" elsewhere)
    q_msg,         \* router harness: the message, a sequence of words
    q_out          \* router harness: the domain and the complexity found, and last_domain

pvars == <<p_pc, p_text, p_result>>
envvars == <<config, clock, ics_cache>>
evars == <<e_pc, e_call, e_env, e_out, e_count>>
avars == <<a_pc, iteration, tool_results, prompt, response, answer, executed,
           provider_calls, asks>>
tvars == <<t_pc, t_now, t_out, t_window>>
rvars == <<registry, r_last, r_count>>
dvars == <<d_pc, d_value, d_ref, d_out>>
cvars == <<c_inv>>
qvars == <<q_pc, q_msg, q_out>>
vars == <<pvars, envvars, evars, avars, tvars, rvars, dvars, cvars, qvars>>

-----------------------------------------------------------------------------
(* Bounds of the model *)

\* nesting depth at which the JSON decoder's recursion guard trips
\* (CPython: the interpreter's recursion limit), scaled down
MaxJsonDepth == 3

\* number of segments a model output is assembled from
MaxSegs == 3

-----------------------------------------------------------------------------
(* Lexemes *)

KeyName == "\"name\":"
KeyParameters == "\"parameters\":"
KeyTok == {KeyName, KeyParameters, "\"date\":", "\"end_date\":", "\"time_of_day\":",
           "\"category\":", "\"city\":", "\"due_soon\":", "\"include_overdue\":",
           "\"due_date\":", "\"due_time\":", "\"notes\":", "\"list_name\":", "\"x\":"}

\* a string literal whose content is a closing brace
StrBrace == "\"}\""

ToolNameTok == {"\"get_calendar\"", "\"get_next_event\"", "\"check_availability\"",
                "\"get_weather\"", "\"get_current_time\"", "\"get_user_info\"",
                "\"get_reminders\"", "\"create_reminder\"", "\"launch_rocket\""}

WeekdayTok == <<"\"monday\"", "\"tuesday\"", "\"wednesday\"", "\"thursday\"",
                "\"friday\"", "\"saturday\"", "\"sunday\"">>

\* ISO dates; day 0 of the model's calendar is Monday 2026-02-02
IsoTok == {"\"2026-02-01\"", "\"2026-02-03\"", "\"2026-02-08\""}

DateTok == {"\"today\"", "\"tomorrow\"", "\"yesterday\"", "\"this week\"", "\"week\"",
            "\"next week\"", "\" Tomorrow \"", "\"someday\"", "\"\""}
           \cup {WeekdayTok[n] : n \in 1..7} \cup IsoTok

CategoryTok == {"\"identity\"", "\"work\"", "\"goals\"", "\"diet\""}

TimeOfDayTok == {"\"morning\"", "\"afternoon\"", "\"evening\"", "\"night\"",
                 "\"all_day\"", "\"noon\""}

MiscTok == {"\"buy milk\"", "\"3pm\"", "\"Groceries\"", "\"Boston\""}

StrTok == ToolNameTok \cup DateTok \cup CategoryTok \cup TimeOfDayTok \cup MiscTok
              \cup {StrBrace}

\* numbers, and the literals true and false
NumTok == {"1"}
BoolTok == {"true", "false"}

Tok(t, i) == IF i \in 1..Len(t) THEN t[i] ELSE "<eof>"

\* the token holds the character '}'
HasCloseBrace(tok) == tok \in {"}", StrBrace}

RECURSIVE SkipWs(_, _)
\* json whitespace / regex \s* : the first index >= i that holds no blank
SkipWs(t, i) == IF Tok(t, i) = " " THEN SkipWs(t, i + 1) ELSE i

-----------------------------------------------------------------------------
(* json.loads on a token sequence.  Result: st = "ok" | "err" (JSONDecodeError)
   | "rec" (RecursionError); nx = index after the value; kind of the value;
   mem = the members of an object, in order, each [key, kind, raw]. *)

JErr == [st |-> "err", nx |-> 0, kind |-> "none", mem |-> <<>>]
JRec == [st |-> "rec", nx |-> 0, kind |-> "none", mem |-> <<>>]
JOk(nx, kind, mem) == [st |-> "ok", nx |-> nx, kind |-> kind, mem |-> mem]

\* the recursion guard of the decoder, on entering a container with d open
JsonTooDeep(d) == d >= MaxJsonDepth

RECURSIVE JValue(_, _, _)
RECURSIVE JMembers(_, _, _, _)
RECURSIVE JElems(_, _, _)

JValue(t, i, d) ==
    IF Tok(t, i) \in StrTok THEN JOk(i + 1, "str", <<>>)
    ELSE IF Tok(t, i) \in NumTok THEN JOk(i + 1, "num", <<>>)
    ELSE IF Tok(t, i) \in BoolTok THEN JOk(i + 1, "bool", <<>>)
    ELSE IF Tok(t, i) = "{" THEN
        IF JsonTooDeep(d) THEN JRec
        ELSE LET j == SkipWs(t, i + 1) IN
             IF Tok(t, j) = "}" THEN JOk(j + 1, "obj", <<>>)
             ELSE JMembers(t, j, d + 1, <<>>)
    ELSE IF Tok(t, i) = "[" THEN
        IF JsonTooDeep(d) THEN JRec
        ELSE LET j == SkipWs(t, i + 1) IN
             IF Tok(t, j) = "]" THEN JOk(j + 1, "arr", <<>>)
             ELSE JElems(t, j, d + 1)
    ELSE JErr

JMembers(t, i, d, acc) ==
    IF Tok(t, i) \notin KeyTok THEN JErr
    ELSE LET j == SkipWs(t, i + 1)
             v == JValue(t, j, d)
         IN IF v.st # "ok" THEN v
            ELSE LET acc2 == Append(acc, [key |-> t[i], kind |-> v.kind,
                                          raw |-> SubSeq(t, j, v.nx - 1)])
                     k == SkipWs(t, v.nx)
                 IN IF Tok(t, k) = "}" THEN JOk(k + 1, "obj", acc2)
                    ELSE IF Tok(t, k) = "," THEN JMembers(t, SkipWs(t, k + 1), d, acc2)
                    ELSE JErr

JElems(t, i, d) ==
    LET v == JValue(t, i, d) IN
    IF v.st # "ok" THEN v
    ELSE LET k == SkipWs(t, v.nx) IN
         IF Tok(t, k) = "]" THEN JOk(k + 1, "arr", <<>>)
         ELSE IF Tok(t, k) = "," THEN JElems(t, SkipWs(t, k + 1), d)
         ELSE JErr

\* json.loads(text): one value, blanks around it, nothing after it
JsonLoads(t) ==
    LET r == JValue(t, SkipWs(t, 1), 0) IN
    IF r.st # "ok" THEN r
    ELSE IF SkipWs(t, r.nx) # Len(t) + 1 THEN JErr
    ELSE r

\* "key" in obj
HasKey(mem, key) == \E n \in 1..Len(mem) : mem[n].key = key

\* obj[key]: a repeated key keeps its last value
GetKey(mem, key) ==
    LET n == CHOOSE m \in 1..Len(mem) :
                 /\ mem[m].key = key
                 /\ \A q \in (m + 1)..Len(mem) : mem[q].key # key
    IN [kind |-> mem[n].kind, raw |-> mem[n].raw]

-----------------------------------------------------------------------------
(* parse_tool_call.  Result: st = "call" | "none" | "raise"; a call carries
   name and parameters as decoded values [kind, raw] and the raw span. *)

NoVal == [kind |-> "none", raw |-> <<>>]
NoCall == [st |-> "none", name |-> NoVal, parameters |-> NoVal, raw |-> <<>>]
Raised == [st |-> "raise", name |-> NoVal, parameters |-> NoVal, raw |-> <<>>]
\* parameters carries the decoded value: its kind, its text, and for an object
\* its members
ToolCall(name, parameters, raw) ==
    [st |-> "call", name |-> name,
     parameters |-> [kind |-> parameters.kind, raw |-> parameters.raw,
                     mem |-> JsonLoads(parameters.raw).mem],
     raw |-> raw]

RECURSIVE FirstCloseBrace(_, _)
\* index of the first token at or after i that holds '}', 0 when there is none
FirstCloseBrace(t, i) ==
    IF i > Len(t) THEN 0
    ELSE IF HasCloseBrace(t[i]) THEN i
    ELSE FirstCloseBrace(t, i + 1)

NoMatch == [ok |-> FALSE, name |-> "", g2from |-> 0, g2to |-> 0, from |-> 0, to |-> 0]

\* simple_pattern  \{"name":\s*"([^"]+)",\s*"parameters":\s*(\{[^}]*\})\}
\* anchored at token i
SimpleMatchAt(t, i) ==
    LET j == SkipWs(t, i + 2)          \* the name string
        k == SkipWs(t, j + 2)          \* "parameters":
        m == SkipWs(t, k + 1)          \* the '{' of group 2
        n == FirstCloseBrace(t, m + 1) \* [^}]* stops at the first '}'
    IN IF /\ Tok(t, i) = "{"
          /\ Tok(t, i + 1) = KeyName
          /\ Tok(t, j) \in StrTok
          /\ Tok(t, j + 1) = ","
          /\ Tok(t, k) = KeyParameters
          /\ Tok(t, m) = "{"
          /\ n # 0
          /\ Tok(t, n) = "}"
          /\ Tok(t, n + 1) = "}"
       THEN [ok |-> TRUE, name |-> t[j], g2from |-> m, g2to |-> n,
             from |-> i, to |-> n + 1]
       ELSE NoMatch

\* re.search(simple_pattern, text): the leftmost match
SimpleSearch(t) ==
    IF \E i \in 1..Len(t) : SimpleMatchAt(t, i).ok
    THEN SimpleMatchAt(t, CHOOSE i \in 1..Len(t) :
                              /\ SimpleMatchAt(t, i).ok
                              /\ \A q \in 1..(i - 1) : ~SimpleMatchAt(t, q).ok)
    ELSE NoMatch

\* if "name" in obj and "parameters" in obj
IsCallObject(mem) == HasKey(mem, KeyName) /\ HasKey(mem, KeyParameters)

\* text[start:i+1] at a '}' character: the '}' inside a string literal cuts the
\* literal in two, which never decodes
Candidate(t, start, i) ==
    IF t[i] = "}" THEN JsonLoads(SubSeq(t, start, i)) ELSE JErr

RECURSIVE BraceScan(_, _, _, _)
\* the for loop over the characters; start = 0 is None
BraceScan(t, i, brace_count, start) ==
    IF i > Len(t) THEN NoCall
    ELSE IF t[i] = "{" THEN
        BraceScan(t, i + 1, brace_count + 1, IF brace_count = 0 THEN i ELSE start)
    ELSE IF HasCloseBrace(t[i]) THEN
        IF brace_count - 1 = 0 /\ start # 0 THEN
            LET obj == Candidate(t, start, i) IN
            IF obj.st = "ok" THEN
                IF IsCallObject(obj.mem)
                THEN ToolCall(GetKey(obj.mem, KeyName), GetKey(obj.mem, KeyParameters),
                              SubSeq(t, start, i))
                ELSE BraceScan(t, i + 1, brace_count - 1, 0)
            ELSE IF obj.st = "err" THEN
                \* except json.JSONDecodeError: continue (start stays)
                BraceScan(t, i + 1, brace_count - 1, start)
            ELSE NoCall    \* except Exception: pass
        ELSE BraceScan(t, i + 1, brace_count - 1, start)
    ELSE BraceScan(t, i + 1, brace_count, start)

parse_tool_call(t) ==
    LET match == SimpleSearch(t)
        params == JsonLoads(SubSeq(t, match.g2from, match.g2to))
    IN IF match.ok /\ params.st = "ok"
       THEN ToolCall([kind |-> "str", raw |-> <<match.name>>],
                     [kind |-> params.kind, raw |-> SubSeq(t, match.g2from, match.g2to)],
                     SubSeq(t, match.from, match.to))
       ELSE IF match.ok /\ params.st = "rec"
       THEN Raised      \* only json.JSONDecodeError is caught here
       ELSE BraceScan(t, 1, 0, 0)

-----------------------------------------------------------------------------
(* datetime: naive local time, [day, hour, minute, second, micro]; day is a
   day number, day 0 a Monday, so weekday() is day % 7 *)

DateTime(day, hour, minute, second, micro) ==
    [day |-> day, hour |-> hour, minute |-> minute, second |-> second, micro |-> micro]

NoDate == [day |-> -1000, hour |-> 0, minute |-> 0, second |-> 0, micro |-> 0]

SecOfDay(a) == a.hour * 3600 + a.minute * 60 + a.second

DtLT(a, b) ==
    \/ a.day < b.day
    \/ a.day = b.day /\ SecOfDay(a) < SecOfDay(b)
    \/ a.day = b.day /\ SecOfDay(a) = SecOfDay(b) /\ a.micro < b.micro

DtLE(a, b) == a = b \/ DtLT(a, b)

\* the instant a number of hours later (earlier when negative)
ShiftHours(a, hours) ==
    [a EXCEPT !.day = a.day + ((a.hour + hours) \div 24),
              !.hour = (a.hour + hours) % 24]

Weekday(a) == a.day % 7

\* reference + timedelta(days=n)
PlusDays(a, n) == [a EXCEPT !.day = a.day + n]

\* .replace(hour=0, minute=0, second=0, microsecond=0)
Midnight(a) == DateTime(a.day, 0, 0, 0, 0)

\* .replace(hour=23, minute=59, second=59): the microsecond is kept
EndOfDaySeconds(a) == DateTime(a.day, 23, 59, 59, a.micro)

\* .replace(hour=23, minute=59, second=59, microsecond=999999)
EndOfDay(a) == DateTime(a.day, 23, 59, 59, 999999)

\* date_str.lower().strip()
LowerStrip(tok) == IF tok = "\" Tomorrow \"" THEN "\"tomorrow\"" ELSE tok

\* day_names.index(date_str)
DayIndex(tok) == (CHOOSE n \in 1..7 : WeekdayTok[n] = tok) - 1

\* datetime.strptime(date_str, '%Y-%m-%d')
IsoDay(tok) ==
    CASE tok = "\"2026-02-01\"" -> -1
      [] tok = "\"2026-02-03\"" -> 1
      [] tok = "\"2026-02-08\"" -> 6

\* a days_ahead that stays on the reference day when it is the target day
DaysAheadOrToday(target_day, current_day) ==
    IF target_day - current_day < 0
    THEN target_day - current_day + 7
    ELSE target_day - current_day

\* days_ahead for a weekday name
DaysAhead(target_day, current_day) ==
    IF target_day - current_day <= 0
    THEN target_day - current_day + 7
    ELSE target_day - current_day

\* days_until_sunday for 'this week'
DaysUntilSunday(reference) ==
    IF 6 - Weekday(reference) < 0 THEN 0 ELSE 6 - Weekday(reference)

\* days_until_monday for 'next week'
DaysUntilMonday(reference) ==
    IF (7 - Weekday(reference)) % 7 = 0 THEN 7 ELSE (7 - Weekday(reference)) % 7

DateResult(start, has_end, end) ==
    [st |-> "ok", start |-> start, has_end |-> has_end, end |-> end]
DateRaised == [st |-> "raise", start |-> NoDate, has_end |-> FALSE, end |-> NoDate]

\* a parser that gives up on a date_str it cannot read
DefaultRaises(reference) == DateRaised

\* the ValueError of strptime is passed over: default to today
DefaultToToday(reference) == DateResult(Midnight(reference), FALSE, NoDate)

\* parse_date_reference(date_str, reference); v is the decoded parameter value
\* [kind, raw]: a value that is no string has no .lower()
parse_date_reference(v, reference) ==
    IF v.kind # "str" THEN DateRaised
    ELSE LET date_str == LowerStrip(v.raw[1]) IN
    IF date_str \in {"\"this week\"", "\"week\""} THEN
        DateResult(Midnight(reference), TRUE,
                   EndOfDaySeconds(PlusDays(reference, DaysUntilSunday(reference))))
    ELSE IF date_str = "\"next week\"" THEN
        LET start == Midnight(PlusDays(reference, DaysUntilMonday(reference))) IN
        DateResult(start, TRUE, EndOfDaySeconds(PlusDays(start, 6)))
    ELSE IF date_str = "\"today\"" THEN
        DateResult(Midnight(reference), FALSE, NoDate)
    ELSE IF date_str = "\"tomorrow\"" THEN
        DateResult(Midnight(PlusDays(reference, 1)), FALSE, NoDate)
    ELSE IF date_str = "\"yesterday\"" THEN
        DateResult(Midnight(PlusDays(reference, -1)), FALSE, NoDate)
    ELSE IF \E n \in 1..7 : WeekdayTok[n] = date_str THEN
        DateResult(Midnight(PlusDays(reference,
                       DaysAhead(DayIndex(date_str), Weekday(reference)))),
                   FALSE, NoDate)
    ELSE IF date_str \in IsoTok THEN
        DateResult(DateTime(IsoDay(date_str), 0, 0, 0, 0), FALSE, NoDate)
    ELSE DefaultToToday(reference)

-----------------------------------------------------------------------------
(* ToolResult.  data None is NoData; error None is NoError *)

NoData == [kind |-> "None", start |-> NoDate, end |-> NoDate, events |-> <<>>,
           info |-> <<>>]
NoError == [some |-> FALSE, msg |-> <<>>]
Data(kind, start, end, events, info) ==
    [kind |-> kind, start |-> start, end |-> end, events |-> events, info |-> info]
Text(kind) == Data(kind, NoDate, NoDate, <<>>, <<>>)

ToolResult(success, data, error) ==
    [success |-> success, data |-> data, error |-> error]
\* ToolResult(True, data)
Success(data) == ToolResult(TRUE, data, NoError)
\* a failed result that carries no error
FailureWithoutError(msg) == ToolResult(FALSE, NoData, NoError)

\* ToolResult(False, None, msg)
Failure(msg) == ToolResult(FALSE, NoData, [some |-> TRUE, msg |-> msg])

\* what a handler leaves behind: st = "ok" with its result, or "raise" when an
\* exception leaves the handler; the ICS cache after it; the provider
\* invocations it made
Handled(result, cache, calls) ==
    [st |-> "ok", result |-> result, cache |-> cache, calls |-> calls]
Escaped(cache, calls) ==
    [st |-> "raise", result |-> Failure(<<"exception">>), cache |-> cache,
     calls |-> calls]

-----------------------------------------------------------------------------
(* Decoded parameters: a value [kind, raw]; only an object has .get *)

IsDict(params) == params.kind = "obj"

Absent == [kind |-> "absent", raw |-> <<>>]

\* params.get(key) on a dict
ParamGet(params, key) ==
    IF HasKey(params.mem, key) THEN GetKey(params.mem, key) ELSE Absent

StrVal(tok) == [kind |-> "str", raw |-> <<tok>>]

\* bool(value)
Truthy(v) ==
    CASE v.kind = "absent" -> FALSE
      [] v.kind = "str" -> v.raw[1] # "\"\""
      [] v.kind = "num" -> TRUE
      [] v.kind = "bool" -> v.raw[1] = "true"
      [] OTHER -> Len(v.raw) > 2

-----------------------------------------------------------------------------
(* Calendar events and what the providers answer.  Every provider answer is
   chosen by the environment, call by call. *)

Event(title, start, src) == [title |-> title, start |-> start, src |-> src]

LectureG == Event("Lecture", DateTime(2, 9, 0, 0, 0), "google")
GymG == Event("Gym", DateTime(3, 18, 0, 0, 0), "google")
DinnerG == Event("Dinner", DateTime(2, 18, 0, 0, 0), "google")
LectureI == Event("Lecture", DateTime(2, 10, 0, 0, 0), "canvas")
QuizI == Event("Quiz", DateTime(2, 8, 0, 0, 0), "canvas")

RECURSIVE InsertByStart(_, _)
\* e goes behind every element that does not start later: the sort is stable
InsertByStart(e, sorted) ==
    IF sorted = <<>> THEN <<e>>
    ELSE IF DtLT(e.start, Head(sorted).start) THEN <<e>> \o sorted
    ELSE <<Head(sorted)>> \o InsertByStart(e, Tail(sorted))

RECURSIVE SortByStart(_)
\* list.sort(key=lambda e: e.start_time)
SortByStart(events) ==
    IF events = <<>> THEN <<>>
    ELSE InsertByStart(events[Len(events)], SortByStart(SubSeq(events, 1, Len(events) - 1)))

RECURSIVE SetToSeq(_)
SetToSeq(S) ==
    IF S = {} THEN <<>>
    ELSE LET x == CHOOSE y \in S : TRUE IN <<x>> \o SetToSeq(S \ {x})

Answer(kind, S) == [kind |-> kind, items |-> SortByStart(SetToSeq(S))]

FeedUrls == {"canvas_url"}

\* calendarList().list().execute(): fails, or lists the calendars
CalListAnswers ==
    {[ok |-> FALSE, ids |-> <<>>], [ok |-> TRUE, ids |-> <<"primary">>],
     [ok |-> TRUE, ids |-> <<"primary", "classes">>]}

\* CalendarProvider.get_events for one calendar: events, an HttpError (which
\* the provider turns into []), or another exception
CalEventsAnswers(own) ==
    {Answer("ok", S) : S \in SUBSET own}
        \cup {Answer("http_error", {}), Answer("raise", {})}

\* WeatherProvider.get_current_weather: None, or the conditions
WeatherAnswers == {"None", "clear", "rain"}

\* a reminder of the Reminders app: its list, and how its due date lies
\* ("none", "overdue", "soon": within 24 hours, "later")
Reminder(id, list_name, due) == [id |-> id, list_name |-> list_name, due |-> due]

TaskSoon == Reminder("r1", "Task Master", "soon")
TaskLater == Reminder("r2", "Task Master", "later")
GroceriesOverdue == Reminder("r3", "Groceries", "overdue")

\* the AppleScript bridge: the reminders of the app, or an error; and whether
\* creating a reminder succeeds
ReminderAnswers ==
    {[ok |-> TRUE, items |-> <<>>, created |-> TRUE],
     [ok |-> TRUE, items |-> <<TaskSoon, TaskLater, GroceriesOverdue>>, created |-> TRUE],
     [ok |-> TRUE, items |-> <<TaskLater>>, created |-> FALSE],
     [ok |-> FALSE, items |-> <<>>, created |-> FALSE]}

\* the hours the machine's local time is ahead of UTC: a machine on UTC and
\* one in New York in winter
UtcOffsets == {0, -5}

DefaultEnv ==
    [cal_list |-> [ok |-> TRUE, ids |-> <<"primary">>],
     primary |-> Answer("ok", {LectureG}),
     classes |-> Answer("ok", {GymG, DinnerG}),
     feed |-> Answer("ok", {LectureI, QuizI}),
     utc_offset |-> 0,
     weather |-> "clear",
     reminders |-> [ok |-> TRUE, items |-> <<TaskSoon, TaskLater, GroceriesOverdue>>,
                    created |-> TRUE]]

\* what the calendar service and the feed may answer to one tool call
CalendarEnvs ==
    {[DefaultEnv EXCEPT !.cal_list = l, !.primary = a, !.classes = b, !.feed = f,
                        !.utc_offset = z] :
        z \in UtcOffsets,
        l \in CalListAnswers,
        a \in CalEventsAnswers({LectureG}) \ {Answer("ok", {})},
        b \in {Answer("ok", {GymG, DinnerG}), Answer("raise", {})},
        f \in {Answer("fail", {}), Answer("ok", {}), Answer("ok", {LectureI, QuizI})}}

WeatherEnvs == {[DefaultEnv EXCEPT !.weather = w] : w \in WeatherAnswers}

ReminderEnvs == {[DefaultEnv EXCEPT !.reminders = r] : r \in ReminderAnswers}

CalAnswer(env, id) == IF id = "primary" THEN env.primary ELSE env.classes

\* one invocation of a provider: the operation and what it was aimed at
Invocation(op, target) ==
    [op |-> op, target |-> target, name |-> "", due |-> NoDate, notes |-> ""]

-----------------------------------------------------------------------------
(* ICSProvider: feeds, and a cache url -> (events, timestamp) *)

ICS_CACHE_TTL == 300

NoEntry == [has |-> FALSE, events |-> <<>>, ts |-> NoDate]
EmptyCache == [u \in FeedUrls |-> NoEntry]

\* a freshness test that still takes an entry of exactly the TTL's age
CacheFreshInclusive(now, ts) ==
    LET ds == (now.day - ts.day) * 86400 + SecOfDay(now) - SecOfDay(ts) IN
    \/ ds < ICS_CACHE_TTL
    \/ ds = ICS_CACHE_TTL /\ now.micro <= ts.micro

\* (datetime.now() - timestamp).total_seconds() < self._cache_ttl
CacheFresh(now, ts) ==
    LET ds == (now.day - ts.day) * 86400 + SecOfDay(now) - SecOfDay(ts) IN
    \/ ds < ICS_CACHE_TTL
    \/ ds = ICS_CACHE_TTL /\ now.micro < ts.micro

\* start_date <= event.start_time <= end_date
IcsInWindow(e, start, end) == DtLE(start, e.start) /\ DtLE(e.start, end)

\* the feed is answered from the cache
ServedFromCache(cache, url, now) == cache[url].has /\ CacheFresh(now, cache[url].ts)

\* events of one feed: the cached ones, or _fetch_and_parse
FeedEvents(cache, url, now, env) ==
    IF ServedFromCache(cache, url, now) THEN cache[url].events
    ELSE IF env.feed.kind = "ok" THEN env.feed.items
    ELSE <<>>

\* the cache after one feed was asked for
FeedCache(cache, url, now, env) ==
    IF ~ServedFromCache(cache, url, now) /\ env.feed.kind = "ok"
    THEN [cache EXCEPT ![url] = [has |-> TRUE, events |-> env.feed.items, ts |-> now]]
    ELSE cache

RECURSIVE IcsCollect(_, _, _, _, _, _)
\* the loop of ICSProvider.get_events over the feeds
IcsCollect(feeds, cache, now, env, start, end) ==
    IF feeds = <<>> THEN [events |-> <<>>, cache |-> cache, calls |-> <<>>]
    ELSE LET url == Head(feeds)
             mine == SelectSeq(FeedEvents(cache, url, now, env),
                               LAMBDA e : IcsInWindow(e, start, end))
             rest == IcsCollect(Tail(feeds), FeedCache(cache, url, now, env),
                                now, env, start, end)
         IN [events |-> mine \o rest.events, cache |-> rest.cache,
             calls |-> (IF ServedFromCache(cache, url, now) THEN <<>>
                        ELSE <<Invocation("requests.get", url)>>) \o rest.calls]


\* ICSProvider.get_events(start, end)
IcsGetEvents(feeds, cache, now, env, start, end) ==
    LET r == IcsCollect(feeds, cache, now, env, start, end) IN
    [events |-> SortByStart(r.events), cache |-> r.cache, calls |-> r.calls]

-----------------------------------------------------------------------------
(* The executor's configuration: which providers it was built with *)

\* the executor the agent builds when every integration is set up: calendar is
\* "self.calendar is there and authenticated", feeds the urls of self.ics.feeds,
\* weather "none" | "nokey" | "ok", profile the categories of self.profile
DefaultConfig ==
    [calendar |-> TRUE, feeds |-> <<"canvas_url">>, weather |-> "ok", reminders |-> TRUE,
     profile |-> <<"\"identity\"", "\"work\"", "\"goals\"">>]

-----------------------------------------------------------------------------
(* The primary calendar service *)

\* the events the calendar service returns for a window
\* the instant of an event, whose start is kept as local wall-clock time
InstantOf(e, utc_offset) == ShiftHours(e.start, 0 - utc_offset)

\* events().list(timeMin, timeMax) with time_min = start_date.isoformat() + 'Z':
\* the naive local bounds are sent with the UTC mark and the service compares
\* them, read as UTC, with the instants of the events
GoogleInWindow(e, start, end, utc_offset) ==
    /\ DtLE(start, InstantOf(e, utc_offset))
    /\ DtLE(InstantOf(e, utc_offset), end)

\* CalendarProvider.get_events: an HttpError is answered with []
CalGetEvents(ans, start, end, utc_offset) ==
    IF ans.kind = "ok"
    THEN SelectSeq(ans.items, LAMBDA e : GoogleInWindow(e, start, end, utc_offset))
    ELSE <<>>

RECURSIVE CalCollect(_, _, _, _)
\* for cal in calendars: ... get_events(...); an exception ends the loop and
\* keeps what was appended before it
CalCollect(ids, env, start, end) ==
    IF ids = <<>> THEN [events |-> <<>>, calls |-> <<>>, raised |-> FALSE]
    ELSE LET ans == CalAnswer(env, Head(ids))
             call == Invocation("get_events", Head(ids))
         IN IF ans.kind = "raise"
            THEN [events |-> <<>>, calls |-> <<call>>, raised |-> TRUE]
            ELSE LET rest == CalCollect(Tail(ids), env, start, end) IN
                 [events |-> CalGetEvents(ans, start, end, env.utc_offset) \o rest.events,
                  calls |-> <<call>> \o rest.calls, raised |-> rest.raised]

\* service.calendarList().list().execute() and the loop over the calendars
CalQuery(env, start, end) ==
    IF ~env.cal_list.ok
    THEN [events |-> <<>>, calls |-> <<Invocation("calendarList", "")>>, raised |-> TRUE]
    ELSE LET r == CalCollect(env.cal_list.ids, env, start, end) IN
         [events |-> r.events, calls |-> <<Invocation("calendarList", "")>> \o r.calls,
          raised |-> r.raised]

NotAsked == [events |-> <<>>, calls |-> <<>>, raised |-> FALSE]

-----------------------------------------------------------------------------
(* _exec_get_calendar *)

\* key = (event.title, event.start_time.date())
DedupKey(e) == <<e.title, e.start.day>>

RECURSIVE DedupeKeepLast(_, _)
\* a deduplication that keeps the occurrence seen last
DedupeKeepLast(events, seen_titles) ==
    IF events = <<>> THEN <<>>
    ELSE IF \E n \in 2..Len(events) : DedupKey(events[n]) = DedupKey(Head(events))
         THEN DedupeKeepLast(Tail(events), seen_titles)
         ELSE <<Head(events)>> \o DedupeKeepLast(Tail(events), seen_titles)

RECURSIVE Dedupe(_, _)
\* if key not in seen_titles: seen_titles.add(key); all_events.append(event)
Dedupe(events, seen_titles) ==
    IF events = <<>> THEN <<>>
    ELSE IF DedupKey(Head(events)) \in seen_titles
         THEN Dedupe(Tail(events), seen_titles)
         ELSE <<Head(events)>>
                  \o Dedupe(Tail(events), seen_titles \cup {DedupKey(Head(events))})

\* a merge that gives up the feed's events when the calendar service gave none
MergeSourcesCalendarOnly(calendar_events, ics_events) ==
    IF calendar_events = <<>> THEN <<>>
    ELSE SortByStart(Dedupe(calendar_events \o ics_events, {}))

\* the events of both sources, the primary calendar's first
MergeSources(calendar_events, ics_events) ==
    SortByStart(Dedupe(calendar_events \o ics_events, {}))

\* ToolResult of get_calendar once the sources have been asked
CalendarResult(all_events, is_range, start, end) ==
    IF all_events = <<>>
    THEN Success(Data(IF is_range THEN "free_range" ELSE "free_day",
                      start, end, <<>>, <<>>))
    ELSE Success(Data(IF is_range THEN "events_range" ELSE "events_day",
                      start, end, all_events, <<>>))

\* params.get(key, default)
ParamOr(params, key, default) ==
    IF ParamGet(params, key).kind = "absent" THEN default ELSE ParamGet(params, key)

\* the window of get_calendar: [ok, start, end, is_range]
CalendarWindow(params, now) ==
    LET d == parse_date_reference(ParamOr(params, "\"date\":", StrVal("\"today\"")), now)
        explicit == ParamGet(params, "\"end_date\":")
        x == parse_date_reference(explicit, now)
    IN IF d.st = "raise" THEN [ok |-> FALSE, start |-> NoDate, end |-> NoDate,
                               is_range |-> FALSE]
       ELSE IF Truthy(explicit)
       THEN IF x.st = "raise"
            THEN [ok |-> FALSE, start |-> NoDate, end |-> NoDate, is_range |-> FALSE]
            ELSE [ok |-> TRUE, start |-> Midnight(d.start), end |-> EndOfDay(x.start),
                  is_range |-> TRUE]
       ELSE [ok |-> TRUE, start |-> Midnight(d.start),
             end |-> IF d.has_end THEN d.end ELSE EndOfDay(d.start),
             is_range |-> d.has_end]

_exec_get_calendar(params, cfg, env, now, cache) ==
    LET has_calendar == cfg.calendar
        has_ics == cfg.feeds # <<>>
        w == CalendarWindow(params, now)
        g == IF has_calendar THEN CalQuery(env, w.start, w.end) ELSE NotAsked
        i == IF has_ics
             THEN IcsGetEvents(cfg.feeds, cache, now, env, w.start, w.end)
             ELSE [events |-> <<>>, cache |-> cache, calls |-> <<>>]
    IN IF ~has_calendar /\ ~has_ics
       THEN Handled(Failure(<<"No calendar sources connected">>), cache, <<>>)
       ELSE IF ~IsDict(params) \/ ~w.ok
       THEN Escaped(cache, <<>>)
       ELSE Handled(CalendarResult(MergeSources(g.events, i.events), w.is_range,
                                   w.start, w.end),
                    i.cache, g.calls \o i.calls)

-----------------------------------------------------------------------------
(* _exec_get_next_event *)

\* now + timedelta(hours=24)
PlusDay(a) == [a EXCEPT !.day = a.day + 1]

\* CalendarProvider.get_next_event: the first upcoming event that starts after now
NextEvents(ans, now, utc_offset) ==
    SelectSeq(CalGetEvents(ans, now, PlusDay(now), utc_offset),
              LAMBDA e : DtLT(now, e.start))

_exec_get_next_event(params, cfg, env, now, cache) ==
    IF ~cfg.calendar
    THEN Handled(Failure(<<"Calendar not connected">>), cache, <<>>)
    ELSE IF env.primary.kind = "raise"
    THEN Escaped(cache, <<Invocation("get_events", "primary")>>)
    ELSE IF NextEvents(env.primary, now, env.utc_offset) = <<>>
    THEN Handled(Success(Text("no_upcoming")), cache,
                 <<Invocation("get_events", "primary")>>)
    ELSE Handled(Success(Data("next_event", now, NoDate,
                              <<Head(NextEvents(env.primary, now, env.utc_offset))>>, <<>>)),
                 cache, <<Invocation("get_events", "primary")>>)

-----------------------------------------------------------------------------
(* _exec_check_availability *)

Hours(start_hour, end_hour) == [start_hour |-> start_hour, end_hour |-> end_hour]

\* time_ranges.get(time_of_day, (0, 24))
TimeRange(time_of_day) ==
    CASE time_of_day = "\"morning\"" -> Hours(6, 12)
      [] time_of_day = "\"afternoon\"" -> Hours(12, 17)
      [] time_of_day = "\"evening\"" -> Hours(17, 21)
      [] time_of_day = "\"night\"" -> Hours(21, 24)
      [] OTHER -> Hours(0, 24)

\* a list or a dict is no dictionary key
Unhashable(v) == v.kind \in {"arr", "obj"}

\* the key a value makes in a table of strings: a string is itself, nothing
\* else is in the table
KeyOf(v) == IF v.kind = "str" THEN v.raw[1] ELSE "<no string>"

_exec_check_availability(params, cfg, env, now, cache) ==
    LET d == parse_date_reference(ParamOr(params, "\"date\":", StrVal("\"today\"")), now)
        time_of_day == ParamOr(params, "\"time_of_day\":", StrVal("\"all_day\""))
        h == TimeRange(KeyOf(time_of_day))
        start == DateTime(d.start.day, h.start_hour, 0, 0, 0)
        last == IF d.has_end THEN d.end ELSE d.start
        end == DateTime(last.day, h.end_hour - 1, 59, 59, 999999)
        q == CalQuery(env, start, end)
        kind == IF q.events = <<>>
                THEN (IF KeyOf(time_of_day) = "\"all_day\"" THEN "free" ELSE "free_period")
                ELSE "busy"
    IN IF ~cfg.calendar
       THEN Handled(Failure(<<"Calendar not connected">>), cache, <<>>)
       ELSE IF ~IsDict(params) \/ d.st = "raise" \/ Unhashable(time_of_day)
       THEN Escaped(cache, <<>>)
       ELSE IF q.raised
       THEN Handled(Failure(<<"Calendar error">>), cache, q.calls)
       ELSE Handled(Success(Data(kind, start, end, SortByStart(q.events),
                                 <<KeyOf(time_of_day)>>)),
                    cache, q.calls)

-----------------------------------------------------------------------------
(* _exec_get_weather *)

_exec_get_weather(params, cfg, env, now, cache) ==
    IF cfg.weather = "none"
    THEN Handled(Failure(<<"Weather not configured">>), cache, <<>>)
    ELSE IF cfg.weather = "nokey"
    THEN Handled(Failure(<<"Weather API key not set">>), cache, <<>>)
    ELSE IF ~IsDict(params)
    THEN Escaped(cache, <<>>)
    ELSE IF env.weather = "None"
    THEN Handled(Failure(<<"Could not fetch weather data">>), cache,
                 <<Invocation("get_current_weather",
                              KeyOf(ParamGet(params, "\"city\":")))>>)
    ELSE Handled(Success(Data("weather", NoDate, NoDate, <<>>, <<env.weather>>)),
                 cache,
                 <<Invocation("get_current_weather",
                              KeyOf(ParamGet(params, "\"city\":")))>>)

-----------------------------------------------------------------------------
(* _exec_get_current_time *)

\* the four-bucket label of an hour
Period(hour) ==
    IF 6 <= hour /\ hour < 12 THEN "morning"
    ELSE IF 12 <= hour /\ hour < 17 THEN "afternoon"
    ELSE IF 17 <= hour /\ hour < 21 THEN "evening"
    ELSE "night"

DayType(now) == IF Weekday(now) >= 5 THEN "weekend" ELSE "weekday"

_exec_get_current_time(params, cfg, env, now, cache) ==
    Handled(Success(Data("current_time", now, NoDate, <<>>,
                         <<DayType(now), Period(now.hour)>>)),
            cache, <<>>)

-----------------------------------------------------------------------------
(* _exec_get_user_info *)

\* a lookup that finds every category
InProfileAlways(profile, category) == TRUE

\* category in self.profile
InProfile(profile, category) ==
    \E n \in 1..Len(profile) : profile[n] = KeyOf(category)

_exec_get_user_info(params, cfg, env, now, cache) ==
    LET category == ParamOr(params, "\"category\":", StrVal("\"identity\"")) IN
    IF ~IsDict(params) THEN Escaped(cache, <<>>)
    ELSE IF cfg.profile = <<>>
    THEN Handled(Failure(<<"No user profile available">>), cache, <<>>)
    ELSE IF Unhashable(category) THEN Escaped(cache, <<>>)
    ELSE IF ~InProfile(cfg.profile, category)
    THEN Handled(Failure(<<"Category not found", KeyOf(category), "Available">>
                             \o cfg.profile),
                 cache, <<>>)
    ELSE Handled(Success(Data("user_info", NoDate, NoDate, <<>>, <<KeyOf(category)>>)),
                 cache, <<>>)

-----------------------------------------------------------------------------
(* RemindersProvider and the reminder tools *)

\* the one list the reminder tools work on
TASK_LIST == "Task Master"

\* a reminder as a line of the listing: its name, and its list
ReminderLine(r) == Event(r.id, NoDate, r.list_name)

\* RemindersProvider.get_reminders(list_name=...)
RemindersOfList(items, list_name) == SelectSeq(items, LAMBDA r : r.list_name = list_name)

\* RemindersProvider.get_due_soon(hours=24): every list, due up to the cutoff
RemindersDueSoon(items) == SelectSeq(items, LAMBDA r : r.due \in {"overdue", "soon"})

\* RemindersProvider.get_overdue(): every list
RemindersOverdue(items) == SelectSeq(items, LAMBDA r : r.due = "overdue")

RECURSIVE InsertOverdue(_, _, _)
\* for r in overdue: if r.id not in seen_ids: reminders.insert(0, r)
InsertOverdue(overdue, seen_ids, reminders) ==
    IF overdue = <<>> THEN reminders
    ELSE InsertOverdue(Tail(overdue), seen_ids,
                       IF Head(overdue).id \in seen_ids THEN reminders
                       ELSE <<Head(overdue)>> \o reminders)

Ids(reminders) == {reminders[n].id : n \in 1..Len(reminders)}

RECURSIVE Lines(_)
Lines(reminders) ==
    IF reminders = <<>> THEN <<>>
    ELSE <<ReminderLine(Head(reminders))>> \o Lines(Tail(reminders))

_exec_get_reminders(params, cfg, env, now, cache) ==
    LET due_soon == ParamOr(params, "\"due_soon\":", [kind |-> "bool", raw |-> <<"false">>])
        include_overdue == ParamOr(params, "\"include_overdue\":",
                                   [kind |-> "bool", raw |-> <<"true">>])
        first == IF Truthy(due_soon) THEN RemindersDueSoon(env.reminders.items)
                 ELSE RemindersOfList(env.reminders.items, TASK_LIST)
        reminders == IF Truthy(include_overdue)
                     THEN InsertOverdue(RemindersOverdue(env.reminders.items),
                                        Ids(first), first)
                     ELSE first
        calls == <<Invocation(IF Truthy(due_soon) THEN "get_due_soon" ELSE "get_reminders",
                              IF Truthy(due_soon) THEN "" ELSE TASK_LIST)>>
                 \o (IF Truthy(include_overdue) THEN <<Invocation("get_overdue", "")>>
                     ELSE <<>>)
    IN IF ~cfg.reminders
       THEN Handled(Failure(<<"Reminders not connected">>), cache, <<>>)
       ELSE IF ~IsDict(params) THEN Escaped(cache, <<>>)
       ELSE IF ~env.reminders.ok
       THEN Handled(Failure(<<"Reminders error">>), cache, <<Head(calls)>>)
       ELSE IF reminders = <<>>
       THEN Handled(Success(Data("no_reminders", NoDate, NoDate, <<>>,
                                 <<Head(calls).op>>)), cache, calls)
       ELSE Handled(Success(Data("reminders", NoDate, NoDate, Lines(reminders),
                                 <<Head(calls).op>>)), cache, calls)

NoDue == [st |-> "ok", some |-> FALSE, at |-> NoDate]

\* the hour parse_reminder_datetime reads from time_str; 9 when there is none
\* or it does not start with digits
ReminderHour(due_time) == IF KeyOf(due_time) = "\"3pm\"" THEN 15 ELSE 9

\* parse_reminder_datetime(date_str, time_str)
parse_reminder_datetime(due_date, due_time, now) ==
    LET date_str == LowerStrip(KeyOf(due_date))
        hour == ReminderHour(due_time)
    IN IF due_date.kind # "str" \/ (Truthy(due_time) /\ due_time.kind # "str")
       THEN [st |-> "raise", some |-> FALSE, at |-> NoDate]
       ELSE IF date_str = "\"today\""
       THEN [st |-> "ok", some |-> TRUE, at |-> DateTime(now.day, hour, 0, 0, 0)]
       ELSE IF date_str = "\"tomorrow\""
       THEN [st |-> "ok", some |-> TRUE, at |-> DateTime(now.day + 1, hour, 0, 0, 0)]
       ELSE IF \E n \in 1..7 : WeekdayTok[n] = date_str
       THEN [st |-> "ok", some |-> TRUE,
             at |-> DateTime(now.day + DaysAhead(DayIndex(date_str), Weekday(now)),
                             hour, 0, 0, 0)]
       ELSE NoDue

\* a choice of list that follows the list name the model supplies
ReminderListFromModel(params) ==
    IF Truthy(ParamGet(params, "\"list_name\":"))
    THEN KeyOf(ParamGet(params, "\"list_name\":"))
    ELSE TASK_LIST

\* list_name = "Task Master", whatever list_name the parameters hold
ReminderList(params) == TASK_LIST

_exec_create_reminder(params, cfg, env, now, cache) ==
    LET name == ParamGet(params, "\"name\":")
        due_date == ParamGet(params, "\"due_date\":")
        due_time == ParamGet(params, "\"due_time\":")
        notes == ParamGet(params, "\"notes\":")
        list_name == ReminderList(params)
        due == IF Truthy(due_date) THEN parse_reminder_datetime(due_date, due_time, now)
               ELSE NoDue
        call == [op |-> "create_reminder", target |-> list_name, name |-> KeyOf(name),
                 due |-> due.at, notes |-> KeyOf(notes)]
    IN IF ~cfg.reminders
       THEN Handled(Failure(<<"Reminders not connected">>), cache, <<>>)
       ELSE IF ~IsDict(params) THEN Escaped(cache, <<>>)
       ELSE IF ~Truthy(name)
       THEN Handled(Failure(<<"Reminder name is required">>), cache, <<>>)
       ELSE IF due.st = "raise" THEN Escaped(cache, <<>>)
       ELSE IF name.kind # "str" \/ (Truthy(notes) /\ notes.kind # "str")
       THEN Handled(Failure(<<"Error creating reminder">>), cache, <<>>)
       ELSE IF env.reminders.created
       THEN Handled(Success(Data("reminder_created", due.at, NoDate, <<>>,
                                 <<KeyOf(name), list_name>>)), cache, <<call>>)
       ELSE Handled(Failure(<<"Failed to create reminder">>), cache, <<call>>)

-----------------------------------------------------------------------------
(* ToolExecutor.execute *)

\* the keys of self._executors
Executors == {"\"get_calendar\"", "\"get_next_event\"", "\"check_availability\"",
              "\"get_weather\"", "\"get_current_time\"", "\"get_user_info\"",
              "\"get_reminders\"", "\"create_reminder\""}

\* executor(tool_call.parameters)
RunHandler(name, params, cfg, env, now, cache) ==
    CASE name = "\"get_calendar\"" -> _exec_get_calendar(params, cfg, env, now, cache)
      [] name = "\"get_next_event\"" -> _exec_get_next_event(params, cfg, env, now, cache)
      [] name = "\"check_availability\"" ->
             _exec_check_availability(params, cfg, env, now, cache)
      [] name = "\"get_weather\"" -> _exec_get_weather(params, cfg, env, now, cache)
      [] name = "\"get_current_time\"" ->
             _exec_get_current_time(params, cfg, env, now, cache)
      [] name = "\"get_user_info\"" -> _exec_get_user_info(params, cfg, env, now, cache)
      [] name = "\"get_reminders\"" -> _exec_get_reminders(params, cfg, env, now, cache)
      [] name = "\"create_reminder\"" -> _exec_create_reminder(params, cfg, env, now, cache)

\* self._executors.get(tool_call.name) finds a handler
HasExecutor(name) == KeyOf(name) \in Executors

\* execute(tool_call): st = "raise" when an exception reaches the caller
execute(tool_call, cfg, env, now, cache) ==
    IF Unhashable(tool_call.name)
    THEN Escaped(cache, <<>>)          \* dict.get of an unhashable key: TypeError
    ELSE IF ~HasExecutor(tool_call.name)
    THEN Handled(Failure(<<"Unknown tool", KeyOf(tool_call.name)>>), cache, <<>>)
    ELSE LET h == RunHandler(KeyOf(tool_call.name), tool_call.parameters,
                             cfg, env, now, cache)
         IN IF h.st = "raise"
            THEN Handled(Failure(<<"exception">>), h.cache, h.calls)  \* except Exception
            ELSE h

-----------------------------------------------------------------------------
(* Model outputs: up to MaxSegs segments, one after the other *)

RECURSIVE Rep(_, _)
Rep(tok, n) == IF n = 0 THEN <<>> ELSE <<tok>> \o Rep(tok, n - 1)

SegProse == <<"Let me check.">>
SegBlank == <<" ">>
SegOpen == <<"{">>
SegClose == <<"}">>
SegMalformed == <<"{", "oops", "}">>
SegNoName == <<"{", "\"x\":", "1", "}">>
\* {"name":"get_weather","parameters":{}}
SegWeather == <<"{", KeyName, "\"get_weather\"", ",", KeyParameters, "{", "}", "}">>
\* {"parameters":{"date":"today"},"name":"get_calendar"}
SegCalendarRev == <<"{", KeyParameters, "{", "\"date\":", "\"today\"", "}", ",",
                    KeyName, "\"get_calendar\"", "}">>
\* { "name":"get_current_time","parameters":{}}
SegTimeSp == <<"{", " ", KeyName, "\"get_current_time\"", ",", KeyParameters,
               "{", "}", "}">>
\* {"name":[],"parameters":{}}
SegListName == <<"{", KeyName, "[", "]", ",", KeyParameters, "{", "}", "}">>
\* {"name":"get_user_info","parameters":{"category":"}"}}
SegBraceStr == <<"{", KeyName, "\"get_user_info\"", ",", KeyParameters,
                 "{", "\"category\":", StrBrace, "}", "}">>
\* {"name":"get_weather","parameters":{"x":[[[ ... ]]]}} nested past the decoder's limit
SegDeep == <<"{", KeyName, "\"get_weather\"", ",", KeyParameters, "{", "\"x\":">>
           \o Rep("[", MaxJsonDepth) \o Rep("]", MaxJsonDepth) \o <<"}", "}">>

Segments == {SegProse, SegBlank, SegOpen, SegClose, SegMalformed, SegNoName,
             SegWeather, SegCalendarRev, SegTimeSp, SegListName, SegBraceStr, SegDeep}

RECURSIVE Flatten(_)
Flatten(ss) == IF ss = <<>> THEN <<>> ELSE Head(ss) \o Flatten(Tail(ss))

Texts == {Flatten(ss) : ss \in UNION {[1..n -> Segments] : n \in 0..MaxSegs}}

-----------------------------------------------------------------------------
(* The instants the clock passes through: a Wednesday morning, 299.9 seconds
   later, and 300 seconds later *)

Instants == <<DateTime(2, 9, 0, 0, 500000), DateTime(2, 9, 5, 0, 400000),
              DateTime(2, 9, 5, 0, 500000)>>

Now == Instants[clock]

NoOutcome == Handled(Failure(<<"none yet">>), EmptyCache, <<>>)

\* the values the variables of a harness hold while another one runs
NoRegister ==
    [name |-> "", description |-> "", existed |-> FALSE, previous |-> "", raised |-> FALSE]

TimeOff == t_pc = "off" /\ t_now = NoDate /\ t_out = NoOutcome /\ t_window = NoOutcome
NoRoute == [domain |-> "", complexity |-> "", last_domain |-> ""]

ConcurrentOff == c_inv = <<>>
RouterOff == q_pc = "off" /\ q_msg = <<>> /\ q_out = NoRoute
OthersOff == ConcurrentOff /\ RouterOff
DateOff == d_pc = "off" /\ d_value = Absent /\ d_ref = NoDate /\ d_out = DateRaised
RegistryOff == registry = <<>> /\ r_last = NoRegister /\ r_count = 0
ParserOff == p_pc = "off" /\ p_text = <<>> /\ p_result = NoCall
EnvOff == config = DefaultConfig /\ clock = 1 /\ ics_cache = EmptyCache
ExecutorOff ==
    /\ e_pc = "off"
    /\ e_call = NoCall
    /\ e_env = DefaultEnv
    /\ e_out = NoOutcome
    /\ e_count = 0
AskOff ==
    /\ a_pc = "off"
    /\ iteration = 0
    /\ tool_results = <<>>
    /\ prompt = <<>>
    /\ response = <<>>
    /\ answer = <<>>
    /\ executed = 0
    /\ provider_calls = 0
    /\ asks = 0

-----------------------------------------------------------------------------
(* Parser harness: a text is drawn, parse_tool_call is applied to it *)

PInit ==
    /\ p_pc = "ready"
    /\ p_text \in Texts
    /\ p_result = NoCall
    /\ EnvOff /\ ExecutorOff /\ AskOff /\ TimeOff /\ RegistryOff /\ DateOff /\ OthersOff

Parse ==
    /\ p_pc = "ready"
    /\ p_result' = parse_tool_call(p_text)
    /\ p_pc' = "done"
    /\ UNCHANGED <<tvars, rvars, dvars, cvars, qvars>>
    /\ UNCHANGED <<p_text, envvars, evars, avars>>

PNext == Parse

SpecParse == PInit /\ [][PNext]_vars

-----------------------------------------------------------------------------
(* What the parser claims speak of: the balanced top-level spans of a text
   that decode to an object holding a name key and a parameters key *)

RECURSIVE DepthBefore(_, _)
\* depth of '{' characters open in front of token i; a '}' character with
\* nothing open is stray
DepthBefore(t, i) ==
    IF i <= 1 THEN 0
    ELSE LET d == DepthBefore(t, i - 1) IN
         IF t[i - 1] = "{" THEN d + 1
         ELSE IF HasCloseBrace(t[i - 1]) /\ d > 0 THEN d - 1
         ELSE d

\* tokens i..j are a span whose brace characters balance (none sits inside a
\* string literal) and that decodes to an object with both keys
DecodesToCall(t, i, j) ==
    /\ t[i] = "{"
    /\ t[j] = "}"
    /\ \A q \in i..j : t[q] # StrBrace
    /\ LET obj == JsonLoads(SubSeq(t, i, j)) IN
           obj.st = "ok" /\ obj.kind = "obj" /\ IsCallObject(obj.mem)

\* a call object as the tool catalog describes one: a string name, an object
\* of parameters
WellFormedCall(t, i, j) ==
    LET obj == JsonLoads(SubSeq(t, i, j)) IN
        /\ GetKey(obj.mem, KeyName).kind = "str"
        /\ GetKey(obj.mem, KeyParameters).kind = "obj"

TopLevelCallSpan(t, i, j) ==
    /\ i \in 1..Len(t)
    /\ j \in i..Len(t)
    /\ DepthBefore(t, i) = 0
    /\ DecodesToCall(t, i, j)

CallSpans(t) == {ij \in (1..Len(t)) \X (1..Len(t)) : TopLevelCallSpan(t, ij[1], ij[2])}

LeftmostCallSpan(t) ==
    CHOOSE ij \in CallSpans(t) : \A o \in CallSpans(t) : ij[1] <= o[1]

NoBraces(t) == \A i \in 1..Len(t) : t[i] # "{" /\ ~HasCloseBrace(t[i])

\* C6: parse_tool_call never raises: for every text it returns a ToolCall or
\* the no-call value, and a text without braces always yields no-call.
C6_ParseNeverRaises ==
    p_pc = "done" =>
        /\ p_result.st \in {"call", "none"}
        /\ (NoBraces(p_text) => p_result.st = "none")

\* C7: a text holding a balanced top-level span that decodes to an object with
\* a name key and a parameters key yields a ToolCall, whatever precedes the span.
C7_CallSpanIsFound ==
    (p_pc = "done" /\ CallSpans(p_text) # {}) => p_result.st = "call"

\* C8: of several well-formed call objects in a text, the one returned is the
\* leftmost top-level one.
C8_LeftmostCallReturned ==
    (/\ p_pc = "done"
     /\ Cardinality(CallSpans(p_text)) >= 2
     /\ \A ij \in CallSpans(p_text) : WellFormedCall(p_text, ij[1], ij[2])) =>
        /\ p_result.st = "call"
        /\ p_result.raw = SubSeq(p_text, LeftmostCallSpan(p_text)[1],
                                 LeftmostCallSpan(p_text)[2])

-----------------------------------------------------------------------------
(* Executor harness: the executor is built over some providers, the parser
   produces a ToolCall from a model output, execute is applied to it, possibly
   again after the clock has moved *)

MaxExec == 2

\* {"name": <name>, "parameters": <parameters>}
CallText(name, parameters) ==
    <<"{", KeyName>> \o name \o <<",", KeyParameters>> \o parameters \o <<"}">>

NoParams == <<"{", "}">>
OneParam(key, value) == <<"{", key, value, "}">>
TwoParams(k1, v1, k2, v2) == <<"{", k1, v1, ",", k2, v2, "}">>

CalendarTexts ==
    {CallText(<<"\"get_calendar\"">>, q) :
        q \in {NoParams, <<"[", "]">>,
               OneParam("\"date\":", "\"today\""),
               OneParam("\"date\":", "\"this week\""),
               OneParam("\"date\":", "1"),
               TwoParams("\"date\":", "\"tomorrow\"", "\"end_date\":", "\"today\"")}}
    \cup {CallText(<<"\"get_next_event\"">>, NoParams),
          CallText(<<"\"check_availability\"">>,
                   TwoParams("\"date\":", "\"today\"", "\"time_of_day\":", "\"morning\"")),
          CallText(<<"\"check_availability\"">>,
                   TwoParams("\"date\":", "\"today\"", "\"time_of_day\":", "\"evening\"")),
          CallText(<<"\"check_availability\"">>, OneParam("\"date\":", "\"today\""))}

OtherTexts ==
    {CallText(<<"\"get_weather\"">>, NoParams),
     CallText(<<"\"get_current_time\"">>, NoParams),
     CallText(<<"\"get_user_info\"">>, OneParam("\"category\":", "\"work\"")),
     CallText(<<"\"get_user_info\"">>, OneParam("\"category\":", "\"diet\"")),
     CallText(<<"\"get_user_info\"">>, OneParam("\"category\":", "1")),
     CallText(<<"\"get_reminders\"">>, NoParams),
     CallText(<<"\"get_reminders\"">>, OneParam("\"due_soon\":", "true")),
     CallText(<<"\"get_reminders\"">>, OneParam("\"include_overdue\":", "false")),
     CallText(<<"\"get_reminders\"">>,
              TwoParams("\"due_soon\":", "true", "\"include_overdue\":", "false")),
     CallText(<<"\"create_reminder\"">>, OneParam("\"name\":", "\"buy milk\"")),
     CallText(<<"\"create_reminder\"">>,
              TwoParams("\"name\":", "\"buy milk\"", "\"list_name\":", "\"Groceries\"")),
     CallText(<<"\"create_reminder\"">>, NoParams),
     CallText(<<"\"launch_rocket\"">>, NoParams),
     CallText(<<"1">>, NoParams),
     CallText(<<"[", "]">>, NoParams)}

\* the ToolCalls the parser produces from these outputs
ExecCalls == {parse_tool_call(t) : t \in CalendarTexts \cup OtherTexts}

ExecConfigs ==
    {[DefaultConfig EXCEPT !.calendar = c, !.feeds = f] :
        c \in BOOLEAN, f \in {<<>>, <<"canvas_url">>}}
    \cup {[DefaultConfig EXCEPT !.weather = w, !.reminders = FALSE, !.profile = <<>>] :
            w \in {"none", "nokey"}}

\* the provider answers that matter to a call of this name
EnvsFor(name) ==
    LET key == KeyOf(name) IN
    IF key \in {"\"get_calendar\"", "\"get_next_event\"", "\"check_availability\""}
    THEN CalendarEnvs
    ELSE IF key = "\"get_weather\"" THEN WeatherEnvs
    ELSE IF key \in {"\"get_reminders\"", "\"create_reminder\""} THEN ReminderEnvs
    ELSE {DefaultEnv}

EInit ==
    /\ config \in ExecConfigs
    /\ clock = 1
    /\ ics_cache = EmptyCache
    /\ e_pc = "ready"
    /\ e_call \in ExecCalls
    /\ e_env = DefaultEnv
    /\ e_out = NoOutcome
    /\ e_count = 0
    /\ ParserOff /\ AskOff /\ TimeOff /\ RegistryOff /\ DateOff /\ OthersOff

\* result = executor.execute(tool_call)
Execute ==
    /\ e_pc = "ready"
    /\ \E env \in EnvsFor(e_call.name) :
         /\ e_env' = env
         /\ e_out' = execute(e_call, config, env, Now, ics_cache)
    /\ ics_cache' = e_out'.cache
    /\ e_count' = e_count + 1
    /\ e_pc' = "done"
    /\ UNCHANGED <<tvars, rvars, dvars, cvars, qvars>>
    /\ UNCHANGED <<e_call, config, clock, pvars, avars>>

\* the caller comes back with the same call later
Again ==
    /\ e_pc = "done"
    /\ e_count < MaxExec
    /\ e_pc' = "ready"
    /\ e_env' = DefaultEnv
    /\ e_out' = NoOutcome
    /\ UNCHANGED <<tvars, rvars, dvars, cvars, qvars>>
    /\ UNCHANGED <<e_call, e_count, envvars, pvars, avars>>

\* time passes between two calls
Tick ==
    /\ e_pc = "ready"
    /\ clock < Len(Instants)
    /\ clock' = clock + 1
    /\ UNCHANGED <<tvars, rvars, dvars, cvars, qvars>>
    /\ UNCHANGED <<config, ics_cache, evars, pvars, avars>>

ENext == Execute \/ Again \/ Tick

SpecExec == EInit /\ [][ENext]_vars

-----------------------------------------------------------------------------
(* Executor claims *)

Range(seq) == {seq[n] : n \in 1..Len(seq)}

\* the invocations the last execute made of an operation
Asked(op) == {n \in 1..Len(e_out.calls) : e_out.calls[n].op = op}

ExecutedGetCalendar ==
    /\ e_pc = "done"
    /\ e_call.st = "call"
    /\ KeyOf(e_call.name) = "\"get_calendar\""
    /\ Asked("calendarList") \cup Asked("requests.get") # {}

\* the calendars whose events were asked for
AskedCalendars == {e_out.calls[n].target : n \in Asked("get_events")}

\* the calendar service was asked and did not answer: listing the calendars
\* failed, or the query of the first calendar did
CalendarDown ==
    /\ Asked("calendarList") # {}
    /\ \/ ~e_env.cal_list.ok
       \/ CalAnswer(e_env, "primary").kind = "raise"

\* the calendar service was asked and one of its queries failed
CalendarFailed ==
    /\ Asked("calendarList") # {}
    /\ \/ ~e_env.cal_list.ok
       \/ \E id \in AskedCalendars : CalAnswer(e_env, id).kind = "raise"

\* the feed was asked and did not answer
FeedFailed == Asked("requests.get") # {} /\ e_env.feed.kind = "fail"

\* what the sources that answered returned for the window of the result
AnsweredEvents ==
    LET w == e_out.result.data
        cal == UNION {{e \in Range(CalAnswer(e_env, id).items) :
                            GoogleInWindow(e, w.start, w.end, e_env.utc_offset)} :
                        id \in {c \in AskedCalendars : CalAnswer(e_env, c).kind = "ok"}}
        feed == IF Asked("requests.get") # {}
                THEN (IF e_env.feed.kind = "ok" THEN Range(e_env.feed.items) ELSE {})
                ELSE IF config.feeds # <<>>
                THEN Range(ics_cache["canvas_url"].events)
                ELSE {}
    IN cal \cup {e \in feed : IcsInWindow(e, w.start, w.end)}

ListedEvents == Range(e_out.result.data.events)

\* C3: execute returns a ToolResult and never lets an exception reach its
\* caller, whatever ToolCall the parser produced and whatever the providers do
C3_ExecuteNeverRaises == e_pc = "done" => e_out.st = "ok"

\* C4: when the query of every connected calendar source fails during
\* get_calendar, the result has success = false
C4_AllSourcesDownIsFailure ==
    (/\ ExecutedGetCalendar
     /\ config.calendar => CalendarDown
     /\ config.feeds # <<>> => FeedFailed)
    => (e_out.st = "ok" /\ ~e_out.result.success)

\* C5: in get_calendar with the calendar service and the feeds both connected,
\* when one of the two sources fails the result is a success and lists exactly
\* the events that the answering sources returned, each (title, date) once
C5_OneSourceDownIsPartial ==
    (/\ ExecutedGetCalendar
     /\ config.calendar /\ config.feeds # <<>>
     /\ CalendarFailed # FeedFailed)
    => /\ e_out.st = "ok"
       /\ e_out.result.success
       /\ ListedEvents \subseteq AnsweredEvents
       /\ {DedupKey(e) : e \in ListedEvents} = {DedupKey(e) : e \in AnsweredEvents}
       /\ Cardinality(ListedEvents) = Len(e_out.result.data.events)
       /\ Cardinality({DedupKey(e) : e \in ListedEvents}) = Cardinality(ListedEvents)

\* the calendar service failed and the events of the feed are what is listed
C5_Witness ==
    /\ ExecutedGetCalendar
    /\ config.calendar /\ config.feeds # <<>>
    /\ CalendarFailed /\ ~FeedFailed
    /\ e_out.result.success
    /\ ListedEvents # {}
    /\ \A e \in ListedEvents : e.src = "canvas"

-----------------------------------------------------------------------------
(* PersonalizedRokuAgent: prompt, answer clean-up and the ask() loop *)

MAX_TOOL_CALLS == 3

FALLBACK == <<"I'm having trouble processing that request. Could you try asking differently?">>

\* ToolResult.to_context_string
to_context_string(result) ==
    IF ~result.success THEN [error |-> TRUE, body |-> result.error.msg]
    ELSE [error |-> FALSE, body |-> result.data]

\* "{tool_call.name}" inside the f-string: str(name) between quotes; a string
\* token already carries its quotes
NameText(name) ==
    IF name.kind = "str" THEN name.raw ELSE <<"\"">> \o name.raw \o <<"\"">>

\* json.dumps(tool_call.parameters): the value written anew, its layout gone
Dumps(raw) == SelectSeq(raw, LAMBDA tok : tok # " ")

\* the assistant and ipython messages _build_prompt writes for one pair
PromptMessages(pair) ==
    [call |-> [name |-> NameText(pair.tool_call.name),
               parameters |-> Dumps(pair.tool_call.parameters.raw)],
     ipython |-> to_context_string(pair.result)]

\* a prompt that lists the newest evidence first
BuildPromptNewestFirst(evidence) ==
    [n \in 1..Len(evidence) |-> PromptMessages(evidence[Len(evidence) + 1 - n])]

\* _build_prompt: the messages that follow the system prompt and the query
_build_prompt(evidence) == [n \in 1..Len(evidence) |-> PromptMessages(evidence[n])]

RECURSIVE RemoveCallAttempts(_, _)
\* re.sub(r'\{"name":[^}]+\}', '', response), from token i on
RemoveCallAttempts(t, i) ==
    IF i > Len(t) THEN <<>>
    ELSE LET n == FirstCloseBrace(t, i + 2)
             matches == /\ Tok(t, i) = "{"
                        /\ Tok(t, i + 1) = KeyName
                        /\ n > 0
                        /\ (n > i + 2 \/ t[n] = StrBrace)
         IN IF matches
            THEN (IF t[n] = StrBrace THEN <<"\"">> ELSE <<>>) \o RemoveCallAttempts(t, n + 1)
            ELSE <<t[i]>> \o RemoveCallAttempts(t, i + 1)

RECURSIVE Strip(_)
\* str.strip()
Strip(t) ==
    IF t = <<>> THEN t
    ELSE IF Head(t) = " " THEN Strip(Tail(t))
    ELSE IF t[Len(t)] = " " THEN Strip(SubSeq(t, 1, Len(t) - 1))
    ELSE t

\* if response.startswith(prefix): response = response[len(prefix):].strip()
DropPrefix(t, prefix) == IF t # <<>> /\ Head(t) = prefix THEN Strip(Tail(t)) ELSE t

_clean_response(t) ==
    DropPrefix(DropPrefix(DropPrefix(Strip(RemoveCallAttempts(t, 1)), "Answer:"),
                          "Response:"),
               "Here's my answer:")

\* a budget test that lets one more round through
BudgetRemainsInclusive(n) == n <= MAX_TOOL_CALLS

\* iteration < self.MAX_TOOL_CALLS
BudgetRemains(n) == n < MAX_TOOL_CALLS

(* The harness: the agent is built, ask() is invoked a bounded number of times,
   the model answers each prompt with one of a few outputs *)

MaxAsks == 2

OutProse == <<"It is sunny.">>
OutAnswer == <<" ", "Answer:", " ", "It is sunny.", " ">>
OutTime == SegProse \o CallText(<<"\"get_current_time\"">>, NoParams)
OutCalendar == CallText(<<"\"get_calendar\"">>, OneParam("\"date\":", "\"today\""))
OutUnknown == CallText(<<"\"launch_rocket\"">>, NoParams)

ModelOutputs == {OutProse, OutAnswer, OutTime, OutCalendar, OutUnknown, SegListName, SegDeep}

AskConfigs == {DefaultConfig, [DefaultConfig EXCEPT !.calendar = FALSE, !.feeds = <<>>]}

\* what the providers may answer to a call made inside ask()
AskEnvsFor(name) ==
    IF KeyOf(name) = "\"get_calendar\""
    THEN {[DefaultEnv EXCEPT !.cal_list = l, !.feed = f] :
            l \in {[ok |-> FALSE, ids |-> <<>>], [ok |-> TRUE, ids |-> <<"primary">>]},
            f \in {Answer("fail", {}), Answer("ok", {LectureI, QuizI})}}
    ELSE {DefaultEnv}

AInit ==
    /\ config \in AskConfigs
    /\ clock = 1
    /\ ics_cache = EmptyCache
    /\ a_pc = "idle"
    /\ iteration = 0
    /\ tool_results = <<>>
    /\ prompt = <<>>
    /\ response = <<>>
    /\ answer = <<>>
    /\ executed = 0
    /\ provider_calls = 0
    /\ asks = 0
    /\ ParserOff /\ ExecutorOff /\ TimeOff /\ RegistryOff /\ DateOff /\ OthersOff

\* ask(query) is invoked: tool_results = []
Ask ==
    /\ a_pc \in {"idle", "returned", "raised"}
    /\ asks < MaxAsks
    /\ asks' = asks + 1
    /\ a_pc' = "loop"
    /\ iteration' = 0
    /\ tool_results' = <<>>
    /\ prompt' = <<>>
    /\ response' = <<>>
    /\ answer' = <<>>
    /\ executed' = 0
    /\ provider_calls' = 0
    /\ UNCHANGED <<tvars, rvars, dvars, cvars, qvars>>
    /\ UNCHANGED <<envvars, pvars, evars>>

\* the head of the for loop: the next prompt is built and the model answers
\* it, or after the last iteration the fallback is returned
Iterate ==
    /\ a_pc = "loop"
    /\ IF iteration <= MAX_TOOL_CALLS
       THEN /\ prompt' = _build_prompt(tool_results)
            /\ response' \in ModelOutputs
            /\ a_pc' = "model"
            /\ UNCHANGED answer
       ELSE /\ answer' = FALLBACK
            /\ a_pc' = "returned"
            /\ UNCHANGED <<prompt, response>>
    /\ UNCHANGED <<tvars, rvars, dvars, cvars, qvars>>
    /\ UNCHANGED <<iteration, tool_results, executed, provider_calls, asks,
                   envvars, pvars, evars>>

\* tool_results.append((tool_call, result)); continue -- unless execute raised
StoreResult(tool_call, out) ==
    /\ executed' = executed + 1
    /\ provider_calls' = provider_calls + Len(out.calls)
    /\ ics_cache' = out.cache
    /\ IF out.st = "raise"
       THEN /\ a_pc' = "raised"
            /\ UNCHANGED <<iteration, tool_results>>
       ELSE /\ tool_results' = Append(tool_results,
                                      [tool_call |-> tool_call, result |-> out.result])
            /\ iteration' = iteration + 1
            /\ a_pc' = "loop"
    /\ UNCHANGED answer

\* result = self.executor.execute(tool_call)
ExecuteTool(tool_call) ==
    \E env \in AskEnvsFor(tool_call.name) :
        StoreResult(tool_call, execute(tool_call, config, env, Now, ics_cache))

\* what the loop body does with the parser's result
HandleParsed(tool_call) ==
    IF tool_call.st = "raise"
    THEN /\ a_pc' = "raised"
         /\ UNCHANGED <<iteration, tool_results, answer, executed, provider_calls,
                        ics_cache>>
    ELSE IF tool_call.st = "call" /\ BudgetRemains(iteration)
    THEN ExecuteTool(tool_call)
    ELSE /\ answer' = _clean_response(response)
         /\ a_pc' = "returned"
         /\ UNCHANGED <<iteration, tool_results, executed, provider_calls, ics_cache>>

\* the rest of the loop body: the output is parsed, then the tool is executed
\* and its result stored, or the output is cleaned and returned
Handle ==
    /\ a_pc = "model"
    /\ HandleParsed(parse_tool_call(response))
    /\ UNCHANGED <<tvars, rvars, dvars, cvars, qvars>>
    /\ UNCHANGED <<prompt, response, asks, config, clock, pvars, evars>>

\* time passes between two questions
Wait ==
    /\ a_pc \in {"idle", "returned", "raised"}
    /\ clock < Len(Instants)
    /\ clock' = clock + 1
    /\ UNCHANGED <<tvars, rvars, dvars, cvars, qvars>>
    /\ UNCHANGED <<config, ics_cache, avars, pvars, evars>>

ANext == Ask \/ Iterate \/ Handle \/ Wait

SpecAsk == AInit /\ [][ANext]_vars

-----------------------------------------------------------------------------
(* Claims about the ask() loop *)

\* the call the parser found in the last model output
ParsedCall == parse_tool_call(response)

\* C1: whatever the model outputs, one ask() makes at most MAX_TOOL_CALLS
\* invocations of the executor
C1_AtMostMaxToolCalls == executed <= MAX_TOOL_CALLS

\* the model asked for a tool in every round, the fourth included, and ask()
\* returned after MAX_TOOL_CALLS executions
C1_Witness ==
    /\ a_pc = "returned"
    /\ executed = MAX_TOOL_CALLS
    /\ ParsedCall.st = "call"

\* C2: when MAX_TOOL_CALLS tools were executed and the next output still parses
\* as a tool call, that call is not executed and the answer is the fixed
\* fallback message
C2_ExhaustedBudgetGivesFallback ==
    (a_pc = "returned" /\ iteration = MAX_TOOL_CALLS /\ ParsedCall.st = "call")
    => (executed = MAX_TOOL_CALLS /\ answer = FALLBACK)

\* C9: when the parsed call names a tool that the dispatch table does not hold
\* and budget remains, the loop body appends the call with a failed result, makes
\* no provider invocation, counts one round and goes on; the next prompt then
\* carries that failure
C9_UnknownToolContinues ==
    [][/\ (/\ a_pc = "model"
           /\ ParsedCall.st = "call"
           /\ KeyOf(ParsedCall.name) \notin Executors
           /\ iteration < MAX_TOOL_CALLS)
          => /\ a_pc' = "loop"
             /\ iteration' = iteration + 1
             /\ provider_calls' = provider_calls
             /\ Len(tool_results') = Len(tool_results) + 1
             /\ tool_results'[Len(tool_results')].tool_call = ParsedCall
             /\ ~tool_results'[Len(tool_results')].result.success
       /\ (/\ a_pc = "loop"
           /\ tool_results # <<>>
           /\ KeyOf(tool_results[Len(tool_results)].tool_call.name) \notin Executors
           /\ a_pc' # a_pc)
          => /\ a_pc' = "model"
             /\ Len(prompt') = Len(tool_results)
             /\ prompt'[Len(prompt')].ipython.error
      ]_vars

\* C10: the tool of a round is executed exactly when the parser returned a call
\* and fewer than MAX_TOOL_CALLS calls were executed, and every execution
\* appends one pair: the evidence is as long as the number of executed calls
\* and as the round counter, and ask() ends only on an output that is no call
\* or on an exhausted budget
C10_EvidenceMatchesExecutions ==
    /\ Len(tool_results) = executed
    /\ iteration = executed
    /\ (a_pc \in {"returned", "raised"} /\ ParsedCall.st = "call")
       => Len(tool_results) = MAX_TOOL_CALLS


\* C11: the prompt the model answers in a round holds one message pair for
\* each (call, result) executed earlier in this ask(), in execution order, and
\* nothing else; the first prompt of an ask() holds no evidence
C11_PromptIsThisAsksEvidence ==
    a_pc = "model"
    => /\ Len(prompt) = executed
       /\ Len(prompt) = Len(tool_results)
       /\ \A n \in 1..Len(prompt) : prompt[n] = PromptMessages(tool_results[n])
       /\ iteration = 0 => prompt = <<>>

\* the second ask(), asked after the first one filled the feed cache, has
\* executed two different calls and shows the model exactly these two
C11_Witness ==
    /\ a_pc = "model"
    /\ asks = 2
    /\ ics_cache["canvas_url"].has
    /\ ics_cache["canvas_url"].ts # Now
    /\ Len(prompt) = 2
    /\ prompt[1] # prompt[2]


\* the lexemes a tool call is written with
CallLexemes == {"{", "}", "[", "]", KeyName, KeyParameters, StrBrace} \cup ToolNameTok

\* C12: the answer ask() returns after cleaning a model output holds no piece
\* of a tool call and does not start with "Answer:" or "Response:"
C12_AnswerIsClean ==
    (a_pc = "returned" /\ answer # FALLBACK)
    => /\ \A n \in 1..Len(answer) : answer[n] \notin CallLexemes
       /\ answer # <<>> => Head(answer) \notin {"Answer:", "Response:"}


\* get_calendar returned a list of events
GetCalendarSucceeded ==
    /\ e_pc = "done"
    /\ e_call.st = "call"
    /\ KeyOf(e_call.name) = "\"get_calendar\""
    /\ e_out.st = "ok"
    /\ e_out.result.success

\* C13: the list get_calendar merges holds each (title, start date) of the
\* events its sources answered exactly once, and the event kept is the one
\* seen first, the calendar service's before a feed's
C13_FirstOfEachKeyIsKept ==
    GetCalendarSucceeded
    => LET listed == e_out.result.data.events IN
       /\ \A m, n \in 1..Len(listed) :
            DedupKey(listed[m]) = DedupKey(listed[n]) => m = n
       /\ {DedupKey(e) : e \in AnsweredEvents} = {DedupKey(e) : e \in ListedEvents}
       /\ ListedEvents \subseteq AnsweredEvents
       /\ \A l \in ListedEvents :
            l.src = "canvas"
            => ~\E e \in AnsweredEvents : e.src = "google" /\ DedupKey(e) = DedupKey(l)

\* the calendar service and the feed both answered a lecture of the same day,
\* and the one listed is the calendar service's
C13_Witness ==
    /\ GetCalendarSucceeded
    /\ {LectureG, LectureI} \subseteq AnsweredEvents
    /\ LectureG \in ListedEvents
    /\ LectureI \notin ListedEvents


\* check_availability returned a result for one day
CheckedOneDay ==
    /\ e_pc = "done"
    /\ e_call.st = "call"
    /\ KeyOf(e_call.name) = "\"check_availability\""
    /\ e_out.st = "ok"
    /\ e_out.result.success
    /\ e_out.result.data.start.day = e_out.result.data.end.day

\* the events the calendars of the service hold
HeldEvents ==
    UNION {Range(CalAnswer(e_env, id).items) :
             id \in {c \in Range(e_env.cal_list.ids) : CalAnswer(e_env, c).kind = "ok"}}

\* the hours [from, to) a time_of_day stands for
PeriodHours(time_of_day) ==
    CASE time_of_day = "\"morning\"" -> <<6, 12>>
      [] time_of_day = "\"afternoon\"" -> <<12, 17>>
      [] time_of_day = "\"evening\"" -> <<17, 21>>
      [] time_of_day = "\"night\"" -> <<21, 24>>
      [] OTHER -> <<0, 24>>

\* the held events that start on the checked day inside the hours checked
HeldInPeriod ==
    LET d == e_out.result.data
        h == PeriodHours(d.info[1])
    IN {e \in HeldEvents : /\ e.start.day = d.start.day
                           /\ h[1] <= e.start.hour
                           /\ e.start.hour < h[2]}

\* C14: for a single day, check_availability reports free exactly when the
\* calendar holds no event inside the hours of the time_of_day on that day
\* (evening is 17:00 to 21:00), and otherwise lists the events held there
C14_FreeIffNoEventInPeriod ==
    CheckedOneDay
    => /\ e_out.result.data.kind \in {"free", "free_period"} <=> HeldInPeriod = {}
       /\ ListedEvents = HeldInPeriod


\* check_availability was executed with a mapping of parameters while a feed
\* was connected, and the calendar service, if connected, answered
CheckedWithFeed ==
    /\ e_pc = "done"
    /\ e_call.st = "call"
    /\ KeyOf(e_call.name) = "\"check_availability\""
    /\ e_out.st = "ok"
    /\ config.feeds # <<>>
    /\ config.calendar => ~CalendarFailed

\* the events of the feed that start on the checked day inside the hours checked
FeedInPeriod ==
    LET d == e_out.result.data
        h == PeriodHours(d.info[1])
    IN {e \in (IF e_env.feed.kind = "ok" THEN Range(e_env.feed.items) ELSE {}) :
          /\ e.start.day = d.start.day
          /\ h[1] <= e.start.hour
          /\ e.start.hour < h[2]}

\* C15: check_availability asks the feeds as well as the calendar service: it
\* succeeds when only feeds are connected, and an event that only a feed holds
\* inside the checked hours is listed and makes the result busy
C15_AvailabilityAsksFeeds ==
    CheckedWithFeed
    => /\ e_out.result.success
       /\ FeedInPeriod \subseteq ListedEvents
       /\ FeedInPeriod # {} => e_out.result.data.kind = "busy"


-----------------------------------------------------------------------------
(* Time harness: get_current_time at an instant of the week, then
   check_availability of the same day for one time_of_day *)

\* the instants datetime.now() may return: every hour of a Wednesday and of a
\* Sunday, at the first and at the last minute of the hour
TimeInstants ==
    {DateTime(day, hour, minute, 0, 0) : day \in {2, 6}, hour \in 0..23, minute \in {0, 59}}

\* the values of time_of_day that name a part of the day
PartsOfDay == {"\"morning\"", "\"afternoon\"", "\"evening\"", "\"night\""}

TInit ==
    /\ t_pc = "ready"
    /\ t_now \in TimeInstants
    /\ t_out = NoOutcome
    /\ t_window = NoOutcome
    /\ ParserOff /\ EnvOff /\ ExecutorOff /\ AskOff /\ RegistryOff /\ DateOff /\ OthersOff

\* execute of a get_current_time call
GetCurrentTime ==
    /\ t_pc = "ready"
    /\ t_out' = execute(parse_tool_call(CallText(<<"\"get_current_time\"">>, NoParams)),
                        config, DefaultEnv, t_now, ics_cache)
    /\ t_pc' = "labelled"
    /\ UNCHANGED <<t_now, t_window, rvars, dvars, cvars, qvars, pvars, envvars, evars, avars>>

\* execute of a check_availability call for today and one part of the day
CheckAvailability ==
    /\ t_pc = "labelled"
    /\ \E time_of_day \in PartsOfDay :
         t_window' = execute(parse_tool_call(
                                 CallText(<<"\"check_availability\"">>,
                                          TwoParams("\"date\":", "\"today\"",
                                                    "\"time_of_day\":", time_of_day))),
                             config, DefaultEnv, t_now, ics_cache)
    /\ t_pc' = "checked"
    /\ UNCHANGED <<t_now, t_out, rvars, dvars, cvars, qvars, pvars, envvars, evars, avars>>

TNext == GetCurrentTime \/ CheckAvailability

SpecTime == TInit /\ [][TNext]_vars

\* the label get_current_time reported, written as a time_of_day value
ReportedPart == "\"" \o t_out.result.data.info[2] \o "\""

\* the window check_availability queried holds the instant of the call
WindowHoldsNow ==
    /\ DtLE(t_window.result.data.start, t_now)
    /\ DtLE(t_now, t_window.result.data.end)

\* C16: at every hour of the day, the part of the day get_current_time reports
\* is the time_of_day whose check_availability window holds that hour
C16_LabelIsThePartHoldingTheHour ==
    t_pc = "checked"
    => (t_window.result.data.info[1] = ReportedPart <=> WindowHoldsNow)


\* the value of the category parameter of the executed call
AskedCategory == ParamOr(e_call.parameters, "\"category\":", StrVal("\"identity\""))

\* get_user_info was executed for a category name (a string or a number) that
\* is no key of the profile
UnknownCategoryAsked ==
    /\ e_pc = "done"
    /\ e_call.st = "call"
    /\ KeyOf(e_call.name) = "\"get_user_info\""
    /\ IsDict(e_call.parameters)
    /\ ~Unhashable(AskedCategory)
    /\ \A n \in 1..Len(config.profile) : config.profile[n] # KeyOf(AskedCategory)

\* the categories an error message lists as available
ListedAvailable(msg) ==
    IF \E n \in 1..Len(msg) : msg[n] = "Available"
    THEN SubSeq(msg, 1 + CHOOSE n \in 1..Len(msg) : msg[n] = "Available", Len(msg))
    ELSE <<>>

CreateInGroceries ==
    parse_tool_call(CallText(<<"\"create_reminder\"">>,
                             TwoParams("\"name\":", "\"buy milk\"",
                                       "\"list_name\":", "\"Groceries\"")))

CreatePlain ==
    parse_tool_call(CallText(<<"\"create_reminder\"">>,
                             OneParam("\"name\":", "\"buy milk\"")))

ExecutedCreateReminder ==
    /\ e_pc = "done"
    /\ e_call.st = "call"
    /\ KeyOf(e_call.name) = "\"create_reminder\""
    /\ e_out.st = "ok"

\* what the same executor and provider make of a call
Outcome(tool_call) == execute(tool_call, config, e_env, Now, ics_cache)

\* C18: create_reminder asks the provider for the list "Task Master" whatever
\* the parameters are, and a call that supplies a list name asks the provider
\* for the same and returns the same as the call without the list name
C18_ListNameIsIgnored ==
    ExecutedCreateReminder
    => /\ \A n \in Asked("create_reminder") : e_out.calls[n].target = TASK_LIST
       /\ e_call = CreateInGroceries
          => /\ e_out.calls = Outcome(CreatePlain).calls
             /\ e_out.result = Outcome(CreatePlain).result

\* the call naming the list Groceries created its reminder in Task Master
C18_Witness ==
    /\ ExecutedCreateReminder
    /\ e_call = CreateInGroceries
    /\ e_out.result.success
    /\ Len(e_out.calls) = 1
    /\ e_out.calls[1].target = TASK_LIST


\* get_reminders returned a listing
ListedReminders ==
    /\ e_pc = "done"
    /\ e_call.st = "call"
    /\ KeyOf(e_call.name) = "\"get_reminders\""
    /\ e_out.st = "ok"
    /\ e_out.result.success

\* C19: whatever due_soon and include_overdue are, every reminder that
\* get_reminders returns belongs to the list "Task Master"
C19_OnlyTaskMasterReminders ==
    ListedReminders => \A r \in ListedEvents : r.src = TASK_LIST


-----------------------------------------------------------------------------
(* ToolRegistry: tools registered one after the other *)

MaxRegister == 3

\* the dataclass Tool, as far as the registry reads it
Tool(name, description) == [name |-> name, description |-> description]

\* the tools handed to register: three names, each in two versions
Tools ==
    {Tool(name, description) : name \in {"get_calendar", "get_weather", "get_reminders"},
                               description \in {"v1", "v2"}}

\* the place of a name in the dict self.tools, 0 when it is no key
IndexOf(tools, name) ==
    IF \E n \in 1..Len(tools) : tools[n].name = name
    THEN CHOOSE n \in 1..Len(tools) : tools[n].name = name
    ELSE 0

\* ToolRegistry.get: the description of the tool, "" for None
get(tools, name) ==
    IF IndexOf(tools, name) = 0 THEN "" ELSE tools[IndexOf(tools, name)].description

\* ToolRegistry.register: self.tools[tool.name] = tool; a key already present
\* keeps its place and takes the new value
register(tools, tool) ==
    IF IndexOf(tools, tool.name) = 0
    THEN Append(tools, tool)
    ELSE [tools EXCEPT ![IndexOf(tools, tool.name)] = tool]

RInit ==
    /\ registry = <<>>
    /\ r_last = NoRegister
    /\ r_count = 0
    /\ ParserOff /\ EnvOff /\ ExecutorOff /\ AskOff /\ TimeOff /\ DateOff /\ OthersOff

\* registry.register(tool); the call returns None and raises nothing
Register ==
    /\ r_count < MaxRegister
    /\ \E tool \in Tools :
         /\ registry' = register(registry, tool)
         /\ r_last' = [name |-> tool.name, description |-> tool.description,
                       existed |-> IndexOf(registry, tool.name) # 0,
                       previous |-> get(registry, tool.name),
                       raised |-> FALSE]
    /\ r_count' = r_count + 1
    /\ UNCHANGED <<tvars, dvars, cvars, qvars, pvars, envvars, evars, avars>>

RNext == Register

SpecRegistry == RInit /\ [][RNext]_vars

\* C20: a register call for a name that is already registered fails, and the
\* tool registered before is still the one the registry holds for that name
C20_RegisterTwiceFails ==
    r_last.existed
    => /\ r_last.raised
       /\ get(registry, r_last.name) = r_last.previous


-----------------------------------------------------------------------------
(* Date harness: parse_date_reference for a date_str and a reference instant *)

\* the reference instants: the days from Sunday 2026-02-01 to Sunday
\* 2026-02-08, at the start, in the middle and at the end of the day, with
\* different sub-second parts
RefInstants ==
    {DateTime(day, 0, 0, 0, 0) : day \in -1..6}
    \cup {DateTime(day, 9, 30, 15, 500000) : day \in -1..6}
    \cup {DateTime(day, 23, 59, 59, 999999) : day \in -1..6}

\* the values of date_str: every date token, and a number
DateValues == {StrVal(tok) : tok \in DateTok} \cup {[kind |-> "num", raw |-> <<"1">>]}

DInit ==
    /\ d_pc = "ready"
    /\ d_value \in DateValues
    /\ d_ref \in RefInstants
    /\ d_out = DateRaised
    /\ ParserOff /\ EnvOff /\ ExecutorOff /\ AskOff /\ TimeOff /\ RegistryOff
    /\ OthersOff

\* parse_date_reference(date_str, reference)
ParseDate ==
    /\ d_pc = "ready"
    /\ d_out' = parse_date_reference(d_value, d_ref)
    /\ d_pc' = "done"
    /\ UNCHANGED <<d_value, d_ref, tvars, rvars, cvars, qvars, pvars, envvars, evars,
                   avars>>

DNext == ParseDate

SpecDate == DInit /\ [][DNext]_vars

\* the token of the parsed date_str, as date_str.lower().strip() leaves it
ParsedToken == IF d_value.kind = "str" THEN LowerStrip(d_value.raw[1]) ELSE "<no string>"

IsWeekdayToken(tok) == \E n \in 1..7 : WeekdayTok[n] = tok

\* C21: for a weekday name and any reference instant, parse_date_reference
\* returns one day, at midnight, that falls on the named weekday 1 to 7 days
\* after the reference day, and 7 days after it when the reference day is
\* that weekday already
C21_NextWeekdayStrictlyAfter ==
    (d_pc = "done" /\ IsWeekdayToken(ParsedToken))
    => /\ d_out.st = "ok"
       /\ ~d_out.has_end
       /\ d_out.start = DateTime(d_out.start.day, 0, 0, 0, 0)
       /\ WeekdayTok[(d_out.start.day % 7) + 1] = ParsedToken
       /\ d_out.start.day - d_ref.day \in 1..7
       /\ WeekdayTok[(d_ref.day % 7) + 1] = ParsedToken
          => d_out.start.day = d_ref.day + 7

\* on a Wednesday evening the token wednesday gave the Wednesday a week later
C21_Witness ==
    /\ d_pc = "done"
    /\ ParsedToken = "\"wednesday\""
    /\ d_ref = DateTime(2, 23, 59, 59, 999999)
    /\ d_out.start = DateTime(9, 0, 0, 0, 0)


\* C22: for "this week" and any reference instant, parse_date_reference
\* returns the reference day at 00:00:00.000 as start and 23:59:59.999 of the
\* coming Sunday as end, the reference day itself when that is a Sunday
C22_ThisWeekEndsSundayLastInstant ==
    (d_pc = "done" /\ ParsedToken = "\"this week\"")
    => /\ d_out.st = "ok"
       /\ d_out.start = DateTime(d_ref.day, 0, 0, 0, 0)
       /\ d_out.has_end
       /\ d_out.end.day % 7 = 6
       /\ d_out.end.day - d_ref.day \in 0..6
       /\ d_out.end.hour = 23 /\ d_out.end.minute = 59 /\ d_out.end.second = 59
       /\ d_out.end.micro >= 999000


\* the tokens parse_date_reference knows: keywords, weekday names, ISO dates
RecognisedTokens ==
    {"\"today\"", "\"tomorrow\"", "\"yesterday\"", "\"this week\"", "\"week\"",
     "\"next week\""} \cup {WeekdayTok[n] : n \in 1..7} \cup IsoTok

\* C23: for a token that is no keyword, no weekday name and no ISO date,
\* parse_date_reference does not fail and returns what it returns for "today":
\* the reference day at midnight and no end
C23_UnknownTokenIsToday ==
    (d_pc = "done" /\ d_value.kind = "str" /\ ParsedToken \notin RecognisedTokens)
    => /\ d_out.st = "ok"
       /\ d_out = parse_date_reference(StrVal("\"today\""), d_ref)
       /\ d_out.start = DateTime(d_ref.day, 0, 0, 0, 0)
       /\ ~d_out.has_end

\* the token someday, asked at the last instant of a Sunday, gave that Sunday
C23_Witness ==
    /\ d_pc = "done"
    /\ d_value = StrVal("\"someday\"")
    /\ d_ref = DateTime(6, 23, 59, 59, 999999)
    /\ d_out.st = "ok"
    /\ d_out.start = DateTime(6, 0, 0, 0, 0)


\* C24: every ToolResult that execute returns has an error exactly when
\* success is false; a successful one has a payload and no error, a failed
\* one an error and no payload
C24_ErrorIffFailure ==
    (e_pc = "done" /\ e_out.st = "ok")
    => /\ e_out.result.error.some <=> ~e_out.result.success
       /\ e_out.result.success => e_out.result.data # NoData
       /\ ~e_out.result.success => e_out.result.data = NoData

\* an exception of a handler became a failed result with an error and no
\* payload, after a provider had been asked
C24_Witness ==
    /\ e_pc = "done"
    /\ e_out.st = "ok"
    /\ ~e_out.result.success
    /\ e_out.result.error.msg = <<"exception">>
    /\ e_out.result.data = NoData
    /\ e_out.calls # <<>>


\* the age of the cache entry of the feed, in microseconds
EntryAge ==
    ((Now.day - ics_cache["canvas_url"].ts.day) * 86400
        + SecOfDay(Now) - SecOfDay(ics_cache["canvas_url"].ts)) * 1000000
    + Now.micro - ics_cache["canvas_url"].ts.micro

\* this step is an execute of get_calendar that asked ICSProvider.get_events
FeedsAsked ==
    /\ e_pc = "ready" /\ e_pc' = "done"
    /\ e_call.st = "call"
    /\ KeyOf(e_call.name) = "\"get_calendar\""
    /\ config.feeds # <<>>
    /\ e_out'.st = "ok"
    /\ e_out'.result.success

\* the feed was not fetched in this step
NotFetched == \A n \in 1..Len(e_out'.calls) : e_out'.calls[n].op # "requests.get"

\* C25: get_events answers from the cache exactly when there is an entry for
\* the feed's URL that is younger than 300 seconds; an entry of 300 seconds or
\* more is not used, the feed is fetched again; answering from the cache
\* leaves the entry as it is
C25_CacheServesOnlyYoungEntries ==
    [][FeedsAsked
       => /\ NotFetched
             <=> (ics_cache["canvas_url"].has /\ EntryAge < 300 * 1000000)
          /\ NotFetched
             => /\ ics_cache' = ics_cache
                /\ \A e \in Range(e_out'.result.data.events) :
                     e.src = "canvas" => e \in Range(ics_cache["canvas_url"].events)
          /\ ~NotFetched /\ e_env'.feed.kind = "ok"
             => ics_cache'["canvas_url"] =
                    [has |-> TRUE, events |-> e_env'.feed.items, ts |-> Now]]_vars

\* an entry made 300 seconds earlier is still in the cache after a query whose
\* fetch failed: it was not used, the feed was asked again
C25_Witness ==
    /\ e_pc = "done"
    /\ KeyOf(e_call.name) = "\"get_calendar\""
    /\ clock = 3
    /\ ics_cache["canvas_url"].has
    /\ ics_cache["canvas_url"].ts = Instants[1]
    /\ e_env.feed.kind = "fail"
    /\ Asked("requests.get") # {}
    /\ e_out.result.success


-----------------------------------------------------------------------------
(* Two ask() invocations on one agent, their steps interleaved.  Each has its
   own tool_results and iteration; both use self.executor and with it the one
   ICSProvider and its _cache.  Beside the evidence an invocation gathers,
   own_cache and alone record what it would have gathered with a cache that
   only it writes, from the same provider answers at the same instants. *)

Invocations == {1, 2}

\* what the model answers in these invocations: prose, or a calendar call
ConcurrentOutputs == {OutProse, OutCalendar}

\* what the providers may answer: the calendar service answers, the feed
\* answers or cannot be reached
ConcurrentEnvs ==
    {[DefaultEnv EXCEPT !.feed = f] : f \in {Answer("fail", {}), Answer("ok", {LectureI, QuizI})}}

Idle ==
    [pc |-> "idle", iteration |-> 0, tool_results |-> <<>>, response |-> <<>>,
     answer |-> <<>>, own_cache |-> EmptyCache, alone |-> <<>>]

CInit ==
    /\ config = DefaultConfig
    /\ clock = 1
    /\ ics_cache = EmptyCache
    /\ c_inv = [i \in Invocations |-> Idle]
    /\ ParserOff /\ ExecutorOff /\ AskOff /\ TimeOff /\ RegistryOff /\ DateOff /\ RouterOff

\* ask(query) is invoked: tool_results = []
CAsk(i) ==
    /\ c_inv[i].pc = "idle"
    /\ c_inv' = [c_inv EXCEPT ![i] = [Idle EXCEPT !.pc = "loop", !.own_cache = ics_cache]]
    /\ UNCHANGED <<envvars, pvars, evars, avars, tvars, rvars, dvars, qvars>>

\* the head of the for loop and self.llm.generate
CIterate(i) ==
    /\ c_inv[i].pc = "loop"
    /\ IF c_inv[i].iteration <= MAX_TOOL_CALLS
       THEN \E r \in ConcurrentOutputs :
               c_inv' = [c_inv EXCEPT ![i].response = r, ![i].pc = "model"]
       ELSE c_inv' = [c_inv EXCEPT ![i].answer = FALLBACK, ![i].pc = "returned"]
    /\ UNCHANGED <<envvars, pvars, evars, avars, tvars, rvars, dvars, qvars>>

\* tool_results.append((tool_call, result)); continue
CStore(i, tool_call, out, out_alone) ==
    /\ ics_cache' = out.cache
    /\ IF out.st = "raise"
       THEN c_inv' = [c_inv EXCEPT ![i].pc = "raised"]
       ELSE c_inv' = [c_inv EXCEPT
                        ![i].tool_results =
                            Append(@, [tool_call |-> tool_call, result |-> out.result]),
                        ![i].alone =
                            Append(@, [tool_call |-> tool_call,
                                       result |-> out_alone.result]),
                        ![i].own_cache = out_alone.cache,
                        ![i].iteration = @ + 1,
                        ![i].pc = "loop"]

\* result = self.executor.execute(tool_call)
CExecute(i, tool_call) ==
    \E env \in ConcurrentEnvs :
        CStore(i, tool_call,
               execute(tool_call, config, env, Now, ics_cache),
               execute(tool_call, config, env, Now, c_inv[i].own_cache))

\* what the loop body does with the parser's result
CHandleParsed(i, tool_call) ==
    IF tool_call.st = "raise"
    THEN c_inv' = [c_inv EXCEPT ![i].pc = "raised"] /\ UNCHANGED ics_cache
    ELSE IF tool_call.st = "call" /\ BudgetRemains(c_inv[i].iteration)
    THEN CExecute(i, tool_call)
    ELSE /\ c_inv' = [c_inv EXCEPT ![i].answer = _clean_response(c_inv[i].response),
                                   ![i].pc = "returned"]
         /\ UNCHANGED ics_cache

CHandle(i) ==
    /\ c_inv[i].pc = "model"
    /\ CHandleParsed(i, parse_tool_call(c_inv[i].response))
    /\ UNCHANGED <<config, clock, pvars, evars, avars, tvars, rvars, dvars, qvars>>

CNext == \E i \in Invocations : CAsk(i) \/ CIterate(i) \/ CHandle(i)

SpecConcurrent == CInit /\ [][CNext]_vars

\* C26: the results an ask() invocation obtains are those it obtains with
\* state that no other invocation writes, however the steps of the two are
\* interleaved
C26_InvocationsDoNotInterfere ==
    \A i \in Invocations : c_inv[i].tool_results = c_inv[i].alone

\* ---------------------------------------------------------------------------
\* QueryRouter (src/core/router.py).  A message is text: a sequence of
\* one-character strings, as Python's str is.
\* ---------------------------------------------------------------------------
UpperCase == <<"A","B","C","D","E","F","G","H","I","J","K","L","M","N","O","P","Q","R","S","T","U","V","W","X","Y","Z">>
LowerCase == <<"a","b","c","d","e","f","g","h","i","j","k","l","m","n","o","p","q","r","s","t","u","v","w","x","y","z">>

\* str.lower(), character by character
lower(s) ==
    [n \in 1..Len(s) |->
        IF \E k \in 1..Len(UpperCase) : UpperCase[k] = s[n]
        THEN LowerCase[CHOOSE k \in 1..Len(UpperCase) : UpperCase[k] = s[n]]
        ELSE s[n]]

\* Python's `kw in message_lower` on two strings: kw occurs somewhere in the
\* text, at any position, inside a word or not
Contains(kw, s) ==
    \E n \in 0..(Len(s) - Len(kw)) : SubSeq(s, n + 1, n + Len(kw)) = kw

\* len(message.split()): the number of maximal runs of non-space characters
word_count(s) ==
    Cardinality({n \in 1..Len(s) : s[n] # " " /\ (n = 1 \/ s[n - 1] = " ")})

\* QueryDomain, in the order the keys of DOMAIN_KEYWORDS are inserted
QueryDomains == <<"work", "home", "health", "personal">>

WORK_KEYWORDS ==
    << <<"m","e","e","t","i","n","g">>,
       <<"e","m","a","i","l">>,
       <<"p","r","o","j","e","c","t">>,
       <<"d","e","a","d","l","i","n","e">>,
       <<"s","c","h","e","d","u","l","e">>,
       <<"c","a","l","e","n","d","a","r">>,
       <<"c","l","i","e","n","t">>,
       <<"p","r","e","s","e","n","t","a","t","i","o","n">>,
       <<"r","e","p","o","r","t">>,
       <<"c","o","l","l","e","a","g","u","e">>,
       <<"b","o","s","s">>,
       <<"o","f","f","i","c","e">>,
       <<"w","o","r","k">>,
       <<"t","a","s","k">>,
       <<"t","o","d","o">> >>

HOME_KEYWORDS ==
    << <<"l","i","g","h","t","s">>,
       <<"t","e","m","p","e","r","a","t","u","r","e">>,
       <<"t","h","e","r","m","o","s","t","a","t">>,
       <<"l","o","c","k">>,
       <<"d","o","o","r">>,
       <<"h","o","m","e">>,
       <<"h","o","u","s","e">>,
       <<"r","o","o","m">>,
       <<"b","e","d">>,
       <<"s","e","c","u","r","i","t","y">>,
       <<"a","l","a","r","m">>,
       <<"g","a","r","a","g","e">>,
       <<"k","i","t","c","h","e","n">>,
       <<"l","i","v","i","n","g"," ","r","o","o","m">>,
       <<"b","e","d","r","o","o","m">> >>

HEALTH_KEYWORDS ==
    << <<"w","o","r","k","o","u","t">>,
       <<"e","x","e","r","c","i","s","e">>,
       <<"s","l","e","e","p">>,
       <<"s","t","e","p","s">>,
       <<"c","a","l","o","r","i","e","s">>,
       <<"h","e","a","l","t","h">>,
       <<"f","i","t","n","e","s","s">>,
       <<"m","e","d","i","c","a","t","i","o","n">>,
       <<"v","i","t","a","m","i","n">>,
       <<"r","u","n">>,
       <<"w","a","l","k">>,
       <<"h","e","a","r","t">>,
       <<"w","e","i","g","h","t">>,
       <<"d","i","e","t">>,
       <<"d","o","c","t","o","r">> >>

PERSONAL_KEYWORDS ==
    << <<"r","e","m","i","n","d">>,
       <<"r","e","m","e","m","b","e","r">>,
       <<"p","r","e","f","e","r","e","n","c","e">>,
       <<"f","a","v","o","r","i","t","e">>,
       <<"h","o","b","b","y">>,
       <<"f","r","i","e","n","d">>,
       <<"f","a","m","i","l","y">>,
       <<"b","i","r","t","h","d","a","y">>,
       <<"a","n","n","i","v","e","r","s","a","r","y">>,
       <<"l","i","k","e">> >>

DOMAIN_KEYWORDS ==
    [d \in Range(QueryDomains) |->
        CASE d = "work" -> WORK_KEYWORDS
          [] d = "home" -> HOME_KEYWORDS
          [] d = "health" -> HEALTH_KEYWORDS
          [] OTHER -> PERSONAL_KEYWORDS]

COMPLEX_KEYWORDS ==
    << <<"c","o","d","e">>,
       <<"p","r","o","g","r","a","m">>,
       <<"d","e","b","u","g">>,
       <<"a","l","g","o","r","i","t","h","m">>,
       <<"i","m","p","l","e","m","e","n","t">>,
       <<"a","n","a","l","y","z","e">>,
       <<"r","e","s","e","a","r","c","h">>,
       <<"e","x","p","l","a","i","n"," ","i","n"," ","d","e","t","a","i","l">>,
       <<"c","o","m","p","a","r","e">>,
       <<"l","e","g","a","l">>,
       <<"m","e","d","i","c","a","l"," ","a","d","v","i","c","e">>,
       <<"f","i","n","a","n","c","i","a","l">>,
       <<"i","n","v","e","s","t","m","e","n","t">> >>

SIMPLE_KEYWORDS ==
    << <<"w","h","a","t"," ","t","i","m","e">>,
       <<"w","e","a","t","h","e","r">>,
       <<"t","u","r","n"," ","o","n">>,
       <<"t","u","r","n"," ","o","f","f">>,
       <<"s","e","t">>,
       <<"r","e","m","i","n","d"," ","m","e">>,
       <<"h","e","l","l","o">>,
       <<"h","i">>,
       <<"t","h","a","n","k","s">>,
       <<"b","y","e">> >>

\* detect_domain: one point for every keyword of the domain found in the
\* lowered message
Score(domain, message_lower) ==
    Cardinality({k \in 1..Len(DOMAIN_KEYWORDS[domain]) :
                    Contains(DOMAIN_KEYWORDS[domain][k], message_lower)})

\* max(scores, key=scores.get): the first key, in insertion order, whose
\* score no other key exceeds
MaxDomain(message_lower) ==
    QueryDomains[CHOOSE n \in 1..Len(QueryDomains) :
        /\ \A m \in 1..Len(QueryDomains) :
              Score(QueryDomains[m], message_lower) <= Score(QueryDomains[n], message_lower)
        /\ \A m \in 1..(n - 1) :
              Score(QueryDomains[m], message_lower) < Score(QueryDomains[n], message_lower)]

\* detect_domain(message) on a router whose last_domain is given: the domain
\* returned and the last_domain left behind
detect_domain(message, last_domain) ==
    LET max_domain == MaxDomain(lower(message)) IN
    IF Score(max_domain, lower(message)) > 0
    THEN [domain |-> max_domain, last_domain |-> max_domain]
    ELSE [domain |-> last_domain, last_domain |-> last_domain]

assess_complexity(message) ==
    IF \E k \in 1..Len(SIMPLE_KEYWORDS) : Contains(SIMPLE_KEYWORDS[k], lower(message))
    THEN "simple"
    ELSE IF \E k \in 1..Len(COMPLEX_KEYWORDS) : Contains(COMPLEX_KEYWORDS[k], lower(message))
    THEN "specialized"
    ELSE IF word_count(message) < 10 THEN "simple"
    ELSE IF word_count(message) < 30 THEN "moderate"
    ELSE "complex"

\* ---- the router harness: one fresh QueryRouter and one message ----
MaxWords == 2

Vocabulary ==
    { <<"L","o","g">>, <<"m","y">>, <<"w","o","r","k","o","u","t">>,
      <<"s","t","e","p","s">>, <<"s","l","e","e","p">>,
      <<"D","e","b","u","g">>, <<"t","h","i","s">>, <<"c","o","d","e">>,
      <<"m","e","e","t","i","n","g">>, <<"l","i","g","h","t","s">>,
      <<"H","i">>, <<"t","h","e">> }

WordLists == UNION {[1..n -> Vocabulary] : n \in 1..MaxWords}

\* the text of a message: its words with one space between two of them
RECURSIVE TextOf(_)
TextOf(words) ==
    IF words = <<>> THEN <<>>
    ELSE IF Len(words) = 1 THEN Head(words)
    ELSE Head(words) \o <<" ">> \o TextOf(Tail(words))

QInit ==
    /\ q_pc = "on"
    /\ q_msg \in WordLists
    /\ q_out = [domain |-> "", complexity |-> "", last_domain |-> "general"]
    /\ ParserOff /\ EnvOff /\ ExecutorOff /\ AskOff /\ TimeOff /\ RegistryOff
    /\ DateOff /\ ConcurrentOff

DetectDomain ==
    /\ q_pc = "on"
    /\ q_out.domain = ""
    /\ LET found == detect_domain(TextOf(q_msg), q_out.last_domain) IN
       q_out' = [q_out EXCEPT !.domain = found.domain,
                              !.last_domain = found.last_domain]
    /\ UNCHANGED <<q_pc, q_msg>>
    /\ UNCHANGED <<pvars, envvars, evars, avars, tvars, rvars, dvars, cvars>>

AssessComplexity ==
    /\ q_pc = "on"
    /\ q_out.complexity = ""
    /\ q_out' = [q_out EXCEPT !.complexity = assess_complexity(TextOf(q_msg))]
    /\ UNCHANGED <<q_pc, q_msg>>
    /\ UNCHANGED <<pvars, envvars, evars, avars, tvars, rvars, dvars, cvars>>

QNext == DetectDomain \/ AssessComplexity

SpecRouter == QInit /\ [][QNext]_vars

\* a keyword, or a phrase of several words, stands in the message as words
\* of its own: it is found between two word boundaries
HasAsWords(kw, words) ==
    Contains(<<" ">> \o kw \o <<" ">>, <<" ">> \o lower(TextOf(words)) \o <<" ">>)

HasWordFrom(keywords, words) ==
    \E k \in 1..Len(keywords) : HasAsWords(keywords[k], words)

WordsOnlyOf(domain, words) ==
    /\ HasWordFrom(DOMAIN_KEYWORDS[domain], words)
    /\ \A other \in Range(QueryDomains) \ {domain} :
          ~HasWordFrom(DOMAIN_KEYWORDS[other], words)

\* C27: on a fresh router, a message whose words include a keyword of the
\* health, work or home list and no word of another domain's list is given
\* that domain by detect_domain
C27_KeywordWordDecidesDomain ==
    \A domain \in {"health", "work", "home"} :
        (q_pc = "on" /\ q_out.domain # "" /\ WordsOnlyOf(domain, q_msg))
            => q_out.domain = domain

\* C28: a message that has a complex keyword among its words and no
\* simple-query phrase as a word or phrase of its own is assessed SPECIALIZED
C28_ComplexKeywordIsSpecialized ==
    (/\ q_pc = "on"
     /\ q_out.complexity # ""
     /\ HasWordFrom(COMPLEX_KEYWORDS, q_msg)
     /\ ~HasWordFrom(SIMPLE_KEYWORDS, q_msg))
        => q_out.complexity = "specialized"

-----------------------------------------------------------------------------
(* Termination of ask().  Each model call and each provider call returns, so
   an invocation that stands at the head of the loop leaves it (the model has
   generated, or the loop is over), and one that stands in the body leaves it
   (the output was parsed and the call executed, or the answer returned).
   Iterate is the only step at the head and Handle the only step in the body,
   and each of the two always has a step to take there *)

LoopHeadLeft == a_pc = "loop" /\ a_pc' \in {"model", "returned"}

LoopBodyLeft == a_pc = "model" /\ a_pc' \in {"loop", "returned", "raised"}

\* the invocation followed is the last one of the run: the earlier ones have
\* been counted and have left nothing behind in the agent
AInitLastAsk ==
    /\ config \in AskConfigs
    /\ clock = 1
    /\ ics_cache = EmptyCache
    /\ a_pc = "idle"
    /\ iteration = 0
    /\ tool_results = <<>>
    /\ prompt = <<>>
    /\ response = <<>>
    /\ answer = <<>>
    /\ executed = 0
    /\ provider_calls = 0
    /\ asks = MaxAsks - 1
    /\ ParserOff /\ ExecutorOff /\ TimeOff /\ RegistryOff /\ DateOff /\ OthersOff

SpecAskFair ==
    AInitLastAsk /\ [][ANext]_vars /\ WF_a_pc(LoopHeadLeft) /\ WF_a_pc(LoopBodyLeft)

\* the model is asked to generate only in the rounds 0..MAX_TOOL_CALLS of one
\* invocation, one generation a round
GenerationsWithinBudget == a_pc = "model" => iteration <= MAX_TOOL_CALLS

\* an invocation that is running comes to its end, with an answer or with an
\* exception
AskEnds == (a_pc = "loop") ~> (a_pc \in {"returned", "raised"})

\* C29: every ask() invocation eventually returns a final answer, having asked
\* the model to generate at most MAX_TOOL_CALLS + 1 times
C29_AskReturnsAnswer ==
    /\ [](GenerationsWithinBudget)
    /\ (a_pc = "loop") ~> (a_pc = "returned")

-----------------------------------------------------------------------------
(* The window of get_calendar *)

\* C30: whatever date and end_date get_calendar is given, the window the
\* providers are asked about does not end before it starts
C30_WindowIsOrdered ==
    (ExecutedGetCalendar /\ e_out.st = "ok" /\ e_out.result.success)
        => DtLE(e_out.result.data.start, e_out.result.data.end)

=============================================================================
